---------------------------- MODULE Spec2Model ----------------------------
(***************************************************************************)
(* Voice transcription pipeline of oobabot/discrivener:                    *)
(*   transport events -> PacketHandler (session router)                    *)
(*                    -> VoiceBufferForUser / VoiceBuffer (ring)           *)
(*                    -> Whisper::on_audio_complete (spawned tasks)        *)
(*                    -> event callback (TranscribedMessage).              *)
(*                                                                         *)
(* Audio is modelled by runs of samples: a run [src, id, n, z] is n        *)
(* consecutive samples of the frame numbered id that arrived for source    *)
(* stream src; z says that all of them are zero.  A frame is one run; a    *)
(* ring or a clip is [runs, len]: its runs in order and its sample count   *)
(* (the ring's occupied length, the Vec's len).  Sample counts are the     *)
(* real ones.                                                              *)
(***************************************************************************)
EXTENDS Integers, Sequences, FiniteSets, TLC

(***************************************************************************)
(* Program constants (types.rs, whisper.rs).                               *)
(***************************************************************************)
AUDIO_CHANNELS == 2
DISCORD_SAMPLES_PER_SECOND == 48000
DISCORD_SAMPLES_PER_MILLISECOND == DISCORD_SAMPLES_PER_SECOND \div 1000
PERIOD_PER_PACKET_GROUP_MS == 20
AUDIO_SAMPLES_PER_FRAME == DISCORD_SAMPLES_PER_MILLISECOND * PERIOD_PER_PACKET_GROUP_MS
AUDIO_TO_RECORD_SECONDS == 30
AUDIO_TO_RECORD_MILLISECONDS == AUDIO_TO_RECORD_SECONDS * 1000
AUDIO_TO_RECORD_FRAMES == AUDIO_TO_RECORD_MILLISECONDS \div PERIOD_PER_PACKET_GROUP_MS
AUDIO_BUFFER_SIZE == AUDIO_SAMPLES_PER_FRAME * AUDIO_TO_RECORD_FRAMES * AUDIO_CHANNELS
MIN_AUDIO_THRESHOLD_MS == 500
WHISPER_SAMPLES_PER_SECOND == 16000
BITRATE_CONVERSION_RATIO == DISCORD_SAMPLES_PER_SECOND \div WHISPER_SAMPLES_PER_SECOND
GROUP_SIZE == BITRATE_CONVERSION_RATIO * AUDIO_CHANNELS

(***************************************************************************)
(* Bounds of the model.                                                    *)
(***************************************************************************)
\* audio frames accepted by VoiceBuffer::push in one behaviour of Spec
MaxFrames == 1
\* audio frames accepted by VoiceBuffer::push in one behaviour of SpecBuf
MaxBufFrames == 3
\* clips handed to on_audio_complete in one behaviour of SpecOrch
MaxClips == 2

\* source-stream identities and participant identities of the environment
Ssrcs == {1, 2}
Users == {1, 2}

\* <<ssrc, participant>> of the speaking-state updates of Spec: participant
\* 1 uses both source streams, participant 2 the second one
JoinPairs == { <<1, 1>>, <<2, 1>>, <<2, 2>> }

\* <<participant, microphone>> of the speaking-state updates of Spec that
\* are not joins: a screen share of participant 1, an update of a microphone
\* without participant id
StateUpdates == { << <<1>>, FALSE >>, << <<>>, TRUE >> }

\* Frames of SpecBuf (samples, all-zero flag): 499 ms and 500 ms of stereo
\* audio, a frame that fills the ring exactly after the 499 ms one and
\* overflows it after the 500 ms one, and a frame longer than the ring.
BufFrameKinds ==
    { [n |-> 47999, z |-> FALSE],
      [n |-> 48000, z |-> TRUE],
      [n |-> AUDIO_BUFFER_SIZE - 47999, z |-> FALSE],
      [n |-> AUDIO_BUFFER_SIZE + 1, z |-> FALSE] }

\* Frames of Spec: 500 ms of silence and a frame that leaves less than
\* 500 ms free in an empty ring.
FrameKinds ==
    { [n |-> 48000, z |-> TRUE],
      [n |-> AUDIO_BUFFER_SIZE - 47999, z |-> FALSE] }

\* Clips given to on_audio_complete directly in SpecOrch: 499 ms, 500 ms
ClipKinds ==
    { [n |-> 47999, z |-> FALSE],
      [n |-> 48000, z |-> FALSE] }

\* wall-clock instants of SpecOrch, in milliseconds: pairs 4.9 s, 5.0 s and
\* 5.1 s apart, on both sides of a whole-second boundary
Times == {0, 100, 4900, 5000, 5100}

\* <<ssrc, participant>> of SpecDuo: two participants, one source stream
\* each
DuoPairs == { <<1, 1>>, <<2, 2>> }

\* Frames of SpecDuo: 500 ms, 250 ms, and a frame of zero length
DuoFrameKinds ==
    { [n |-> 48000, z |-> FALSE],
      [n |-> 24000, z |-> FALSE],
      [n |-> 0, z |-> TRUE] }

\* frames accepted by VoiceBuffer::push in one behaviour of SpecDuo
DuoBudget == {2}

\* Worker threads of the runtime.  #[tokio::main] starts one per core of
\* the host: four where the number does not matter, two in SpecDuo.
DefaultWorkers == 4
DuoWorkers == {2}

\* frames of the end-to-end scenarios of SpecE2E: 300 ms, 2000 ms, and two
\* frames more than the ring holds
ScenarioFrames == {15, 25, 100, AUDIO_TO_RECORD_FRAMES + 2}
\* the scenarios whose frames are silence (every sample zero): 500 ms
SilentScenarios == {25}

\* Inputs of resample_audio_from_discord_to_whisper on its own: up to
\* MaxGroups whole groups of GROUP_SIZE samples, the two samples of the
\* first time slot drawn from SlotValues and the other four, all alike,
\* from RestValues, followed by an incomplete group.
MaxGroups == 2
SlotValues == {-100, 0, 100}
RestValues == {0, 100}
Groups ==
    { <<l, r, a, a, a, a>> : l \in SlotValues, r \in SlotValues, a \in RestValues }
Remainders == { <<>>, <<100>>, <<100, 100, 100, 100, 100>> }
\* the value of every sample of a frame that is not silence
LoudSample == 100

VARIABLES
    ssrc_to_user_voice_data, \* PacketHandler's map: ssrc -> <<>> or <<session>>
    map_lock_poisoned,       \* the map's std Mutex was poisoned by a panic
    tasks,                   \* one entry per call of on_audio_complete
    last_transcription,      \* Whisper.last_transcription: <<>> or <<data>>
    emitted,                 \* TranscribedMessages given to the event callback
    now,                     \* wall clock, milliseconds
    history,                 \* per ssrc, since its session was created:
                             \*   the runs handed to VoiceBuffer::push and
                             \*   the length of tasks at creation; left:
                             \*   the session was removed and none created
                             \*   since
    last_event,              \* the transport event handled last, whether its
                             \*   handler ran, panicked, and how many clips
                             \*   it handed off (recorded where the
                             \*   environment asks for it)
    nframes,                 \* audio frames accepted so far
    script,                  \* the end-to-end scenario being played, if any
    worker_threads,          \* worker threads of the tokio runtime that runs
                             \*   the event handlers and the spawned tasks
    resampler,               \* a call of resample_audio_from_discord_to_whisper
                             \*   on its own: its argument and, once it has
                             \*   returned, its result
    pc,                      \* where each handler invocation and each
                             \*   spawned task is with respect to the locks,
                             \*   and the event a handler is handling
    holder                   \* per lock, the handler or task holding it

vars == << ssrc_to_user_voice_data, map_lock_poisoned, tasks,
           last_transcription, emitted, now, history, last_event,
           nframes, script, worker_threads, resampler, pc, holder >>

routerVars == << ssrc_to_user_voice_data, map_lock_poisoned, history >>
orchVars == << tasks, last_transcription, emitted >>

(***************************************************************************)
(* Helpers on runs of samples.                                             *)
(***************************************************************************)
Min(a, b) == IF a < b THEN a ELSE b

RECURSIVE SampleCount(_)
SampleCount(runs) ==
    IF runs = <<>> THEN 0 ELSE Head(runs).n + SampleCount(Tail(runs))

RECURSIVE Flatten(_)
Flatten(seqs) ==
    IF seqs = <<>> THEN <<>> ELSE Head(seqs) \o Flatten(Tail(seqs))

Empty == [runs |-> <<>>, len |-> 0]

None == <<>>
Some(x) == <<x>>

(***************************************************************************)
(* ringbuf::HeapRb of capacity AUDIO_BUFFER_SIZE (voice_buffer.rs:23).     *)
(***************************************************************************)
free_len(buffer) == AUDIO_BUFFER_SIZE - buffer.len

\* Producer::push_slice appends as many samples as fit and drops the rest
push_slice(buffer, audio) ==
    LET k == Min(free_len(buffer), audio.n)
    IN  IF k = 0
        THEN buffer
        ELSE [ runs |-> Append(buffer.runs, [audio EXCEPT !.n = k]),
               len |-> buffer.len + k ]

(***************************************************************************)
(* VoiceBuffer.  Each operation yields the new ring and the sequence of    *)
(* clips it handed to on_buffer_full_fn, in call order.                    *)
(***************************************************************************)
\* Faulty variants of the operations of this section, rejected by the
\* properties at the end of the module:
\*   push that never flushes,
VoiceBuffer_push_no_flush(buffer, audio) ==
    [buffer |-> push_slice(buffer, audio), calls |-> <<>>]

\*   push that flushes already when the frame fits exactly,
VoiceBuffer_push_eager(buffer, audio) ==
    LET f == IF free_len(buffer) <= audio.n
             THEN [buffer |-> Empty, calls |-> <<buffer>>]
             ELSE [buffer |-> buffer, calls |-> <<>>]
    IN  [buffer |-> push_slice(f.buffer, audio), calls |-> f.calls]

\*   push that fills the ring with the start of a frame that does not
\*   fit, flushes, and stores the rest of the frame,
VoiceBuffer_push_split(buffer, audio) ==
    LET k == Min(free_len(buffer), audio.n)
    IN  IF k = audio.n
        THEN [buffer |-> push_slice(buffer, audio), calls |-> <<>>]
        ELSE [ buffer |-> push_slice(Empty, [audio EXCEPT !.n = audio.n - k]),
               calls |-> << push_slice(buffer, audio) >> ]

\*   a flush that clears the ring without calling the callback,
_flush_buffer_lost(buffer) == [buffer |-> Empty, calls |-> <<>>]

\*   a flush without the is_empty test,
flush_buffer_unconditional(buffer) == [buffer |-> Empty, calls |-> <<buffer>>]

\*   a flush that does nothing.
flush_buffer_never(buffer) == [buffer |-> buffer, calls |-> <<>>]

\* pop everything, call the callback with it
_flush_buffer(buffer) == [buffer |-> Empty, calls |-> <<buffer>>]

flush_buffer(buffer) ==
    IF buffer.len = 0
    THEN [buffer |-> buffer, calls |-> <<>>]
    ELSE _flush_buffer(buffer)

VoiceBuffer_push(buffer, audio) ==
    LET f == IF free_len(buffer) < audio.n
             THEN _flush_buffer(buffer)
             ELSE [buffer |-> buffer, calls |-> <<>>]
    IN  [buffer |-> push_slice(f.buffer, audio), calls |-> f.calls]

(***************************************************************************)
(* VoiceBufferForUser: [user_id, buffer, speaking, on_buffer_full_fn].     *)
(* The callback is named by the user id its closure captured.  Each        *)
(* operation yields the new session and the clips handed off.              *)
(***************************************************************************)
VoiceBufferForUser_new(user_id, callback) ==
    [ user_id |-> user_id, buffer |-> Empty, speaking |-> TRUE,
      on_buffer_full_fn |-> callback ]

\* Faulty variant: a push that takes a non-silent frame as the start of
\* speech.
VoiceBufferForUser_push_wakes(s, audio) ==
    IF ~s.speaking /\ audio.z
    THEN [session |-> s, calls |-> <<>>]
    ELSE LET r == VoiceBuffer_push(s.buffer, audio)
         IN  [ session |-> [s EXCEPT !.buffer = r.buffer, !.speaking = TRUE],
               calls |-> r.calls ]

\* Faulty variant: a push that buffers silence while not speaking.
VoiceBufferForUser_push_silence(s, audio) ==
    IF ~s.speaking /\ ~audio.z
    THEN [session |-> s, calls |-> <<>>]
    ELSE LET r == VoiceBuffer_push(s.buffer, audio)
         IN  [session |-> [s EXCEPT !.buffer = r.buffer], calls |-> r.calls]

\* Faulty variant: a push that does not look at the speaking flag.
VoiceBufferForUser_push_always(s, audio) ==
    LET r == VoiceBuffer_push(s.buffer, audio)
    IN  [session |-> [s EXCEPT !.buffer = r.buffer], calls |-> r.calls]

VoiceBufferForUser_push(s, audio) ==
    IF ~s.speaking
    THEN [session |-> s, calls |-> <<>>]
    ELSE LET r == VoiceBuffer_push(s.buffer, audio)
         IN  [session |-> [s EXCEPT !.buffer = r.buffer], calls |-> r.calls]

VoiceBufferForUser_on_start_talking(s) ==
    [session |-> [s EXCEPT !.speaking = TRUE], calls |-> <<>>]

VoiceBufferForUser_on_stop_talking(s) ==
    LET r == flush_buffer(s.buffer)
    IN  [session |-> [s EXCEPT !.speaking = FALSE, !.buffer = r.buffer],
         calls |-> r.calls]

(***************************************************************************)
(* Whisper (discrivener/src/whisper.rs).                                   *)
(***************************************************************************)
\* Faulty variants: a duration that forgets the two channels, and a
\* threshold test that also drops a clip of exactly the threshold.
audio_duration_ms_mono(audio) == audio.len \div DISCORD_SAMPLES_PER_MILLISECOND

on_audio_complete_le(user_id, audio, ssrc, t) ==
    LET d == (audio.len \div AUDIO_CHANNELS) \div DISCORD_SAMPLES_PER_MILLISECOND
    IN  [ user_id |-> user_id, audio |-> audio, ssrc |-> ssrc,
          audio_duration_ms |-> d, unixsecs |-> t \div 1000, start_ms |-> t,
          pc |-> IF d <= MIN_AUDIO_THRESHOLD_MS THEN "dropped" ELSE "spawned",
          ctx |-> None, end_ms |-> 0 ]

\* Faulty variant: no clip is too short to be transcribed.
on_audio_complete_all(user_id, audio, ssrc, t) ==
    LET d == (audio.len \div AUDIO_CHANNELS) \div DISCORD_SAMPLES_PER_MILLISECOND
    IN  [ user_id |-> user_id, audio |-> audio, ssrc |-> ssrc,
          audio_duration_ms |-> d, unixsecs |-> t \div 1000, start_ms |-> t,
          pc |-> "spawned", ctx |-> None, end_ms |-> 0 ]

audio_duration_ms(audio) ==
    (audio.len \div AUDIO_CHANNELS) \div DISCORD_SAMPLES_PER_MILLISECOND

\* The synchronous part of on_audio_complete, called at wall-clock time t
\* (ms) with a clip that came from source stream ssrc: the entry it adds to
\* tasks.  pc = "dropped": returned before task::spawn.
on_audio_complete(user_id, audio, ssrc, t) ==
    [ user_id |-> user_id,
      audio |-> audio,
      ssrc |-> ssrc,
      audio_duration_ms |-> audio_duration_ms(audio),
      unixsecs |-> t \div 1000,
      start_ms |-> t,
      pc |-> IF audio_duration_ms(audio) < MIN_AUDIO_THRESHOLD_MS
             THEN "dropped" ELSE "spawned",
      ctx |-> None,
      end_ms |-> 0 ]

(***************************************************************************)
(* resample_audio_from_discord_to_whisper (whisper.rs:175-222) on a clip   *)
(* given as the sequence of its i16 samples.  The sums of two i16 are      *)
(* exact in f32; a quotient x / y of two of them is kept as the pair of    *)
(* its operands.                                                           *)
(***************************************************************************)
Abs(x) == IF x < 0 THEN -x ELSE x

F32Div(x, y) == [num |-> x, den |-> y]

\* 0.0 / 0.0
IsNaN(f) == f.num = 0 /\ f.den = 0

\* the quotient is exactly 1.0
IsOne(f) == f.den # 0 /\ f.num = f.den

out_len(audio) == Len(audio) \div GROUP_SIZE

RECURSIVE SumChannels(_, _, _)
\* lines 205-208: val after the loop over j in 0..AUDIO_CHANNELS, for the
\* chunk that starts after the first base samples
SumChannels(audio, base, j) ==
    IF j = 0 THEN 0 ELSE SumChannels(audio, base, j - 1) + audio[base + j]

\* Faulty variant: the sum over the whole group.
GroupValue_whole(audio, i) ==
    SumChannels(audio, GROUP_SIZE * (i - 1), GROUP_SIZE)

\* audio_out[i - 1] before the division
GroupValue(audio, i) ==
    SumChannels(audio, GROUP_SIZE * (i - 1), AUDIO_CHANNELS)

\* lines 196, 209-212: starts at 0.0 and is raised to every larger |val|
audio_max(audio) ==
    LET abs == { Abs(GroupValue(audio, i)) : i \in 1..out_len(audio) } \cup {0}
    IN  CHOOSE m \in abs : \A a \in abs : a <= m

resample_audio_from_discord_to_whisper(audio) ==
    LET m == audio_max(audio)
    IN  [ i \in 1..out_len(audio) |-> F32Div(GroupValue(audio, i), m) ]

\* line 219 runs at least once and divides by a peak of zero
DividesByZero(audio) == out_len(audio) > 0 /\ audio_max(audio) = 0

RECURSIVE SampleAt(_, _)
\* sample k (from 1) of a clip given as runs
SampleAt(runs, k) ==
    IF k <= Head(runs).n
    THEN IF Head(runs).z THEN 0 ELSE LoudSample
    ELSE SampleAt(Tail(runs), k - Head(runs).n)

\* the samples of a clip of the pipeline
Samples(audio) == [ k \in 1..audio.len |-> SampleAt(audio.runs, k) ]

NoResampling == [audio |-> <<>>, audio_out |-> None]

\* whisper.rs:126: the u64 subtraction unixsecs - timestamp is taken first
SubOverflows(task, lt) == lt.timestamp > task.unixsecs

\* Faulty variant: the age test without the owner test.
SelectContext_any_user(task, slot) ==
    IF slot = None THEN None
    ELSE IF (task.unixsecs - slot[1].timestamp) < 5 THEN slot ELSE None

\* whisper.rs:121-132: the context the task passes to audio_to_text, given
\* the shared slot it read (no overflow)
SelectContext(task, slot) ==
    IF slot = None THEN None
    ELSE LET lt == slot[1]
         IN  IF (task.unixsecs - lt.timestamp) < 5 /\ lt.user_id = task.user_id
             THEN Some(lt) ELSE None

\* whisper.rs:24-42: tokens are named by the task whose message they are
\* the tokenization of
from_transcribed_message(i, message, end_ms) ==
    [ tokens |-> i,
      timestamp |-> end_ms \div 1000,
      user_id |-> message.user_id,
      end_ms |-> end_ms ]

TranscribedMessage(i, task) ==
    [ task |-> i,
      timestamp |-> task.unixsecs,
      user_id |-> task.user_id,
      audio_duration_ms |-> task.audio_duration_ms ]

(***************************************************************************)
(* PacketHandler (discrivener/src/packet_handler.rs).  Each handler takes  *)
(* the session map m (after lock().unwrap() succeeded) and yields          *)
(*   [map, calls, panic]: the new map, the clips given to                  *)
(*   audio_complete_callback as [user_id, audio, ssrc], and whether the    *)
(*   handler panicked holding the lock.                                    *)
(***************************************************************************)
Tracked(m, ssrc) == m[ssrc] # None

\* Faulty variant: the id passed by the buffer is handed on as it is.
Callback_placeholder(s, ssrc, clips) ==
    [ i \in 1..Len(clips) |->
        [user_id |-> 0, audio |-> clips[i], ssrc |-> ssrc] ]

\* the closure built in act (line 182) replaces the placeholder id 0 that
\* VoiceBuffer passes by the user id captured at join
Callback(s, ssrc, clips) ==
    [ i \in 1..Len(clips) |->
        [user_id |-> s.on_buffer_full_fn, audio |-> clips[i], ssrc |-> ssrc] ]

\* the sessions of the map: the values a closure given to _with_ssrc can
\* be applied to
Sessions(m) == { m[s][1] : s \in { x \in DOMAIN m : m[x] # None } }

\* Faulty variant: a lookup that starts a session for an unknown ssrc.
_with_ssrc_or_insert(m, ssrc, f) ==
    IF Tracked(m, ssrc)
    THEN LET r == f[m[ssrc][1]]
         IN  [ map |-> [m EXCEPT ![ssrc] = Some(r.session)],
               calls |-> Callback(m[ssrc][1], ssrc, r.calls),
               panic |-> FALSE ]
    ELSE [ map |-> [m EXCEPT ![ssrc] = Some(VoiceBufferForUser_new(1, 1))],
           calls |-> <<>>, panic |-> FALSE ]

\* f is the closure, a function from the session found to its result
_with_ssrc(m, ssrc, f) ==
    IF Tracked(m, ssrc)
    THEN LET r == f[m[ssrc][1]]
         IN  [ map |-> [m EXCEPT ![ssrc] = Some(r.session)],
               calls |-> Callback(m[ssrc][1], ssrc, r.calls),
               panic |-> FALSE ]
    ELSE [map |-> m, calls |-> <<>>, panic |-> FALSE]

on_user_join(m, ssrc, user_id, audio_callback) ==
    IF Tracked(m, ssrc) /\ m[ssrc][1].user_id # user_id
    THEN [map |-> m, calls |-> <<>>, panic |-> TRUE]
    ELSE [ map |-> [m EXCEPT ![ssrc] =
                              Some(VoiceBufferForUser_new(user_id, audio_callback))],
           calls |-> <<>>, panic |-> FALSE ]

on_start_talking(m, ssrc) ==
    _with_ssrc(m, ssrc,
               [s \in Sessions(m) |-> VoiceBufferForUser_on_start_talking(s)])

on_audio(m, ssrc, audio) ==
    _with_ssrc(m, ssrc,
               [s \in Sessions(m) |-> VoiceBufferForUser_push(s, audio)])

on_stop_talking(m, ssrc) ==
    _with_ssrc(m, ssrc,
               [s \in Sessions(m) |-> VoiceBufferForUser_on_stop_talking(s)])

\* Faulty variant: a leave that hands off a ring it removes.
on_user_leave_flushes(m, user_id) ==
    LET leaving == { s \in DOMAIN m : m[s] # None /\ m[s][1].user_id = user_id }
        full == { s \in leaving : m[s][1].buffer.len > 0 }
    IN  [ map |-> [ s \in DOMAIN m |-> IF s \in leaving THEN None ELSE m[s] ],
          calls |-> IF full = {} THEN <<>>
                    ELSE LET s == CHOOSE x \in full : TRUE
                         IN  Callback(m[s][1], s, << m[s][1].buffer >>),
          panic |-> FALSE ]

\* Faulty variant: a leave that drops every session.
on_user_leave_all(m, user_id) ==
    [map |-> [s \in DOMAIN m |-> None], calls |-> <<>>, panic |-> FALSE]

on_user_leave(m, user_id) ==
    [ map |-> [ s \in DOMAIN m |->
                  IF m[s] # None /\ m[s][1].user_id = user_id
                  THEN None ELSE m[s] ],
      calls |-> <<>>, panic |-> FALSE ]

\* Faulty variant: an ignored event that forgets every session.
Unchanged_reset(m) ==
    [map |-> [s \in DOMAIN m |-> None], calls |-> <<>>, panic |-> FALSE]

Unchanged(m) == [map |-> m, calls |-> <<>>, panic |-> FALSE]

\* Faulty variant: a handler of speaking-state updates that does not look
\* at the microphone flag or at the presence of a participant id.
act_state_update_any(m, ssrc, user_id, microphone) ==
    on_user_join(m, ssrc, IF user_id # None THEN user_id[1] ELSE 0,
                 IF user_id # None THEN user_id[1] ELSE 0)

\* lines 148-188: a speaking-state update
act_state_update(m, ssrc, user_id, microphone) ==
    IF microphone
    THEN IF user_id # None
         THEN on_user_join(m, ssrc, user_id[1], user_id[1])
         ELSE Unchanged(m)
    ELSE Unchanged(m)

\* PacketHandler::act on an event ctx = [kind, ssrc, user_id, flag, audio]
act(m, ctx) ==
    CASE ctx.kind = "SpeakingStateUpdate" ->
            act_state_update(m, ctx.ssrc, ctx.user_id, ctx.flag)
      [] ctx.kind = "SpeakingUpdate" ->
            IF ctx.flag
            THEN on_start_talking(m, ctx.ssrc)
            ELSE on_stop_talking(m, ctx.ssrc)
      [] ctx.kind = "VoicePacket" -> on_audio(m, ctx.ssrc, ctx.audio[1])
      [] ctx.kind = "ClientDisconnect" -> on_user_leave(m, ctx.user_id[1])

\* Faulty variant: a conversion that passes every event on.
Converted_always(ctx) == TRUE

\* MyEventContext::from (types.rs:174-206): is the event handed to act at all
Converted(ctx) ==
    IF ctx.kind = "VoicePacket"
    THEN ctx.audio # None /\ ctx.audio[1].n # 0
    ELSE TRUE

(***************************************************************************)
(* Transport events.                                                       *)
(***************************************************************************)
SpeakingStateUpdate(ssrc, user_id, microphone) ==
    [ audio |-> None, user_id |-> user_id, ssrc |-> ssrc,
      kind |-> "SpeakingStateUpdate", flag |-> microphone ]

SpeakingUpdate(ssrc, speaking) ==
    [ audio |-> None, user_id |-> None, ssrc |-> ssrc,
      kind |-> "SpeakingUpdate", flag |-> speaking ]

VoicePacket(ssrc, n, z) ==
    [ audio |-> Some([src |-> ssrc, id |-> nframes + 1, n |-> n, z |-> z]),
      user_id |-> None, ssrc |-> ssrc, kind |-> "VoicePacket", flag |-> FALSE ]

ClientDisconnect(user_id) ==
    [ audio |-> None, user_id |-> Some(user_id), ssrc |-> 0,
      kind |-> "ClientDisconnect", flag |-> FALSE ]

NoEvent(kind) ==
    [ ctx |-> [ audio |-> None, user_id |-> None, ssrc |-> 0, kind |-> kind,
                flag |-> FALSE ],
      panic |-> FALSE, ran |-> FALSE, handed |-> 0 ]

IsJoin(ctx) ==
    ctx.kind = "SpeakingStateUpdate" /\ ctx.flag /\ ctx.user_id # None

\* does the event reach VoiceBuffer::push
Pushes(m, ctx) ==
    /\ ctx.kind = "VoicePacket"
    /\ Tracked(m, ctx.ssrc)
    /\ m[ctx.ssrc][1].speaking

NoHistory == [pushed |-> <<>>, first |-> 0, left |-> FALSE]

\* history after the event ctx was handled on map m giving result r
NextHistory(m, ctx, r) ==
    [ s \in Ssrcs |->
        IF r.panic THEN history[s]
        ELSE IF IsJoin(ctx) /\ ctx.ssrc = s
             THEN [pushed |-> <<>>, first |-> Len(tasks), left |-> FALSE]
        ELSE IF Pushes(m, ctx) /\ ctx.ssrc = s
             THEN [history[s] EXCEPT !.pushed = Append(@, ctx.audio[1])]
        ELSE IF Tracked(m, s) /\ r.map[s] = None
             THEN [NoHistory EXCEPT !.left = TRUE]
        ELSE history[s] ]

(***************************************************************************)
(* The runtime.  The event handlers are async fns awaited by the           *)
(* transport's tasks and the transcription tasks are started with          *)
(* task::spawn, so both run on the runtime's worker threads.  A            *)
(* transcription task calls the engine synchronously (audio_to_text is     *)
(* not async): from its first step to its last it keeps its worker.        *)
(***************************************************************************)
Running ==
    { i \in 1..Len(tasks) : tasks[i].pc \in {"read", "transcribed", "written"} }

WorkerFree == Cardinality(Running) < worker_threads

(***************************************************************************)
(* VoicePacketHandlerWrapper::act (model.rs:92-100) on one transport       *)
(* event: convert it, hand it to PacketHandler::act, which locks the map;  *)
(* every clip handed off goes through Whisper::on_audio_complete at once.  *)
(* A handler that finds the map lock poisoned panics in lock().unwrap()    *)
(* and changes nothing.                                                    *)
(***************************************************************************)
Deliver(ctx, maxFrames, maxClips, log) ==
    LET m == ssrc_to_user_voice_data
        ran == Converted(ctx) /\ ~map_lock_poisoned
        r == IF ran THEN act(m, ctx) ELSE Unchanged(m)
        pushes == ran /\ Pushes(m, ctx)
    IN  /\ WorkerFree
        /\ pushes => nframes < maxFrames
        /\ Len(tasks) + Len(r.calls) <= maxClips
        /\ ssrc_to_user_voice_data' = r.map
        /\ map_lock_poisoned' = (map_lock_poisoned \/ r.panic)
        /\ tasks' = tasks \o
              [ i \in 1..Len(r.calls) |->
                  on_audio_complete(r.calls[i].user_id, r.calls[i].audio,
                                    r.calls[i].ssrc, now) ]
        /\ history' = IF ran THEN NextHistory(m, ctx, r) ELSE history
        /\ nframes' = IF pushes THEN nframes + 1 ELSE nframes
        /\ last_event' = IF log
                         THEN [ ctx |-> ctx, ran |-> ran, panic |-> r.panic,
                                handed |-> Len(r.calls) ]
                         ELSE last_event
        /\ UNCHANGED << last_transcription, emitted, now, worker_threads,
                        resampler, pc, holder >>

(***************************************************************************)
(* The task spawned by on_audio_complete (whisper.rs:115-171), in the      *)
(* steps at which other tasks can interleave.                              *)
(***************************************************************************)
TaskStep(i, t) ==
    /\ tasks' = [tasks EXCEPT ![i] = t]
    /\ UNCHANGED << routerVars, last_event, now, nframes, script,
                    worker_threads, resampler, pc, holder >>

\* a task that has returned or panicked
Ended(i) ==
    tasks[i].pc \in {"dropped", "overflow_panic", "engine_panic", "empty", "emitted"}

\* Faulty variant: a task that starts only when the earlier tasks of its
\* participant have ended.
TaskRead_sequenced(i) ==
    /\ tasks[i].pc = "spawned"
    /\ WorkerFree
    /\ \A h \in 1..(i - 1) : tasks[h].user_id = tasks[i].user_id => Ended(h)
    /\ UNCHANGED << last_transcription, emitted >>
    /\ IF last_transcription # None
          /\ SubOverflows(tasks[i], last_transcription[1])
       THEN \/ TaskStep(i, [tasks[i] EXCEPT !.pc = "overflow_panic"])
            \/ TaskStep(i, [tasks[i] EXCEPT !.pc = "read", !.ctx = None])
       ELSE TaskStep(i, [tasks[i] EXCEPT
                           !.pc = "read",
                           !.ctx = SelectContext(tasks[i], last_transcription)])

\* lines 116-132: resample, lock the shared slot, read it, choose the
\* context.  When timestamp > unixsecs the subtraction overflows: a build
\* with overflow checks panics, one without wraps to a value >= 5.
TaskRead(i) ==
    /\ tasks[i].pc = "spawned"
    /\ WorkerFree
    /\ UNCHANGED << last_transcription, emitted >>
    /\ IF last_transcription # None
          /\ SubOverflows(tasks[i], last_transcription[1])
       THEN \/ TaskStep(i, [tasks[i] EXCEPT !.pc = "overflow_panic"])
            \/ TaskStep(i, [tasks[i] EXCEPT !.pc = "read", !.ctx = None])
       ELSE TaskStep(i, [tasks[i] EXCEPT
                           !.pc = "read",
                           !.ctx = SelectContext(tasks[i], last_transcription)])

\* Faulty variant: an engine step that clears the shared slot when the
\* engine returned no segment.
TaskEngine_clears(i) ==
    /\ tasks[i].pc = "read"
    /\ UNCHANGED emitted
    /\ \E outcome \in {"engine_panic", "empty", "transcribed"} :
          /\ last_transcription' =
                IF outcome = "empty" THEN None ELSE last_transcription
          /\ TaskStep(i, [tasks[i] EXCEPT
                            !.pc = outcome,
                            !.end_ms = IF outcome = "transcribed" THEN now ELSE 0])

\* Faulty variant: an engine step whose failure empties the shared slot.
TaskEngine_forgets(i) ==
    /\ tasks[i].pc = "read"
    /\ UNCHANGED emitted
    /\ \E outcome \in {"engine_panic", "empty", "transcribed"} :
          /\ last_transcription' =
                IF outcome = "engine_panic" THEN None ELSE last_transcription
          /\ TaskStep(i, [tasks[i] EXCEPT
                            !.pc = outcome,
                            !.end_ms = IF outcome = "transcribed" THEN now ELSE 0])

\* lines 133-153: audio_to_text returns; it panicked (an unwrap on an
\* engine error), returned no segment, or returned segments, and then
\* end_time is taken
TaskEngine(i) ==
    /\ tasks[i].pc = "read"
    /\ UNCHANGED << last_transcription, emitted >>
    /\ \E outcome \in {"engine_panic", "empty", "transcribed"} :
          TaskStep(i, [tasks[i] EXCEPT
                         !.pc = outcome,
                         !.end_ms = IF outcome = "transcribed" THEN now ELSE 0])

\* lines 155-166: build the new context, lock, replace the shared slot
TaskWrite(i) ==
    /\ tasks[i].pc = "transcribed"
    /\ last_transcription' =
          Some(from_transcribed_message(i, TranscribedMessage(i, tasks[i]),
                                        tasks[i].end_ms))
    /\ UNCHANGED emitted
    /\ TaskStep(i, [tasks[i] EXCEPT !.pc = "written"])

\* Faulty variant: the callback called as soon as the engine has returned
\* segments, without the replace of the shared slot.
TaskEmit_unwritten(i) ==
    /\ tasks[i].pc = "transcribed"
    /\ emitted' = Append(emitted, TranscribedMessage(i, tasks[i]))
    /\ UNCHANGED last_transcription
    /\ TaskStep(i, [tasks[i] EXCEPT !.pc = "emitted"])

\* Faulty variant: a callback that waits for the tasks of the clips handed
\* off earlier.
TaskEmit_in_order(i) ==
    /\ tasks[i].pc = "written"
    /\ \A h \in 1..(i - 1) : Ended(h)
    /\ emitted' = Append(emitted, TranscribedMessage(i, tasks[i]))
    /\ UNCHANGED last_transcription
    /\ TaskStep(i, [tasks[i] EXCEPT !.pc = "emitted"])

\* lines 168-170: the event callback
TaskEmit(i) ==
    /\ tasks[i].pc = "written"
    /\ emitted' = Append(emitted, TranscribedMessage(i, tasks[i]))
    /\ UNCHANGED last_transcription
    /\ TaskStep(i, [tasks[i] EXCEPT !.pc = "emitted"])

Tick(times) ==
    /\ \E t \in times : t > now /\ now' = t
    /\ UNCHANGED << routerVars, orchVars, last_event, nframes, script,
                    worker_threads, resampler, pc, holder >>

(***************************************************************************)
(* Locks.  The handlers take std::sync::Mutex locks with lock().unwrap():  *)
(* maybe_log_file_mutex (packet_handler.rs:139-144), the map's             *)
(* ssrc_to_user_voice_data (54, 88, 94) and, inside the closure given to   *)
(* _with_ssrc, the buffer_mutex of the session's VoiceBuffer               *)
(* (voice_buffer.rs:38, 57).  A spawned task takes the tokio Mutex of      *)
(* last_transcription with lock().await (whisper.rs:123, 165).  pc and     *)
(* holder follow the invocations of act and the tasks through these lock   *)
(* sites only; what the handlers do to the sessions is above.              *)
(***************************************************************************)
Handlers == {"h1", "h2"}

LockTasks == {"t1", "t2"}

Locks ==
    { <<"maybe_log_file_mutex", 0>>, <<"ssrc_to_user_voice_data", 0>>,
      <<"last_transcription", 0>> }
    \cup { <<"buffer_mutex", s>> : s \in Ssrcs }

InitThreads ==
    /\ pc = [ p \in Handlers \cup LockTasks |->
                [ at |-> IF p \in Handlers THEN "idle" ELSE "unspawned",
                  event |-> "none", kind |-> "none", ssrc |-> 0 ] ]
    /\ holder = [ l \in Locks |-> None ]

\* the invocations of act and the tasks that occupy a worker thread: a
\* handler until it returns (blocked in lock() or not), a task from the
\* moment lock().await returned to its next await or its end
OnWorker ==
    { p \in Handlers : pc[p].at # "idle" }
    \cup { t \in LockTasks :
             pc[t].at \in {"read_held", "engine", "write_held", "callback"} }

\* Faulty variant: a guard that is dropped without unlocking.
MutexGuard_drop_forgets(p, l, from, to) ==
    /\ pc[p].at = from
    /\ holder[l] = Some(p)
    /\ pc' = [pc EXCEPT ![p].at = to]
    /\ UNCHANGED holder

\* Mutex::lock returns once the lock is free
Mutex_lock(p, l, from, to) ==
    /\ pc[p].at = from
    /\ holder[l] = None
    /\ holder' = [holder EXCEPT ![l] = Some(p)]
    /\ pc' = [pc EXCEPT ![p].at = to]

\* the guard goes out of scope
MutexGuard_drop(p, l, from, to) ==
    /\ pc[p].at = from
    /\ holder[l] = Some(p)
    /\ holder' = [holder EXCEPT ![l] = None]
    /\ pc' = [pc EXCEPT ![p].at = to]

\* the events the handler is registered for (model.rs:36-63)
CoreEvents ==
    { "SpeakingStateUpdate", "SpeakingUpdate", "VoicePacket",
      "ClientDisconnect", "DriverConnect", "DriverDisconnect",
      "DriverReconnect" }

\* MyEventContext::from (types.rs:174-206): the variant made of a transport
\* event of the given kind, if any; audio is "none", "empty" or "samples"
MyEventContext_from(event, audio) ==
    CASE event \in {"SpeakingStateUpdate", "SpeakingUpdate",
                    "ClientDisconnect"} -> Some(event)
      [] event = "VoicePacket" ->
            IF audio = "samples" THEN Some("VoicePacket") ELSE None
      [] event = "DriverConnect" -> Some("DriverConnect")
      [] event = "DriverReconnect" -> Some("DriverConnect")
      [] event = "DriverDisconnect" -> Some("DriverDisconnect")
      [] OTHER -> None

\* model.rs:92-100: a transport event that MyEventContext::from converts
\* is given to act on a worker thread; with a log file configured act
\* starts by locking it.  The match of act has arms, and lock sites, for
\* the first four variants only.
act_called(h) ==
    /\ pc[h].at = "idle"
    /\ Cardinality(OnWorker) < worker_threads
    /\ \E event \in CoreEvents, audio \in {"none", "empty", "samples"},
          s \in Ssrcs, log \in BOOLEAN :
          LET ctx == MyEventContext_from(event, audio)
          IN  /\ ctx # None
              /\ pc' = [pc EXCEPT ![h] =
                          [ at |-> IF log THEN "log_wait"
                                   ELSE IF ctx[1] \in {"DriverConnect", "DriverReconnect",
                                                       "DriverDisconnect"}
                                        THEN "idle" ELSE "map_wait",
                            event |-> event, kind |-> ctx[1], ssrc |-> s ]]
    /\ UNCHANGED holder

\* packet_handler.rs:139-144: the log file is locked for one write
act_log(h) ==
    \/ Mutex_lock(h, <<"maybe_log_file_mutex", 0>>, "log_wait", "log_held")
    \/ MutexGuard_drop(h, <<"maybe_log_file_mutex", 0>>, "log_held",
                       IF pc[h].kind \in {"DriverConnect", "DriverReconnect",
                                          "DriverDisconnect"}
                       THEN "idle" ELSE "map_wait")

\* packet_handler.rs:54, 88, 94: every handler locks the map; on_user_join,
\* on_user_leave, and _with_ssrc without a session or with a closure
\* that does not reach the ring, return with only the map locked;
\* on_audio and on_stop_talking go on to the session's ring
with_map(h) ==
    \/ \E to \in {"map_held"} \cup
                 (IF pc[h].kind \in {"VoicePacket", "SpeakingUpdate"}
                  THEN {"ring_wait"} ELSE {}) :
          Mutex_lock(h, <<"ssrc_to_user_voice_data", 0>>, "map_wait", to)
    \/ \E from \in {"map_held", "ring_done"} :
          MutexGuard_drop(h, <<"ssrc_to_user_voice_data", 0>>, from, "idle")

\* voice_buffer.rs:35-52 and 56-63: push and flush_buffer lock the ring;
\* _flush_buffer calls on_buffer_full_fn with the ring locked, which, for a
\* clip that is long enough, ends in task::spawn (whisper.rs:115)
with_ring(h) ==
    \/ Mutex_lock(h, <<"buffer_mutex", pc[h].ssrc>>, "ring_wait", "ring_held")
    \/ /\ pc[h].at = "ring_held"
       /\ \E t \in LockTasks :
             /\ pc[t].at = "unspawned"
             /\ pc' = [pc EXCEPT ![t].at = "spawned", ![h].at = "ring_flushed"]
       /\ UNCHANGED holder
    \/ \E from \in {"ring_held", "ring_flushed"} :
          MutexGuard_drop(h, <<"buffer_mutex", pc[h].ssrc>>, from, "ring_done")

\* whisper.rs:122-132 and 164-166: the context is locked for the read and
\* again for the replace; a task waiting in lock().await has given up its
\* worker thread and needs one to go on
with_context(t) ==
    \/ /\ Cardinality(OnWorker) < worker_threads
       /\ \/ Mutex_lock(t, <<"last_transcription", 0>>, "spawned", "read_held")
          \/ Mutex_lock(t, <<"last_transcription", 0>>, "write_wait", "write_held")
    \/ MutexGuard_drop(t, <<"last_transcription", 0>>, "read_held", "engine")
    \/ MutexGuard_drop(t, <<"last_transcription", 0>>, "write_held", "callback")

\* whisper.rs:133-142 and 168-170: the engine call returns segments, or the
\* task ends in it or after it; the event callback ends the task
task_runs(t) ==
    /\ \/ pc[t].at = "engine" /\ \E to \in {"write_wait", "done"} :
                                    pc' = [pc EXCEPT ![t].at = to]
       \/ pc[t].at = "callback" /\ pc' = [pc EXCEPT ![t].at = "done"]
    /\ UNCHANGED holder

(***************************************************************************)
(* Environments.  A transport event of a free-running environment.         *)
(***************************************************************************)
Init ==
    /\ ssrc_to_user_voice_data = [s \in Ssrcs |-> None]
    /\ map_lock_poisoned = FALSE
    /\ tasks = <<>>
    /\ last_transcription = None
    /\ emitted = <<>>
    /\ now = 0
    /\ history = [s \in Ssrcs |-> NoHistory]
    /\ last_event = NoEvent("init")
    /\ nframes = 0
    /\ script = [phase |-> "free", frames |-> 0, sent |-> 0]
    /\ worker_threads = DefaultWorkers
    /\ resampler = NoResampling
    /\ InitThreads

Read == \E i \in 1..Len(tasks) : TaskRead(i)

Engine == \E i \in 1..Len(tasks) : TaskEngine(i)

Write == \E i \in 1..Len(tasks) : TaskWrite(i)

Emit == \E i \in 1..Len(tasks) : TaskEmit(i)

(***************************************************************************)
(* Spec: the session router and its buffers under an arbitrary transport,  *)
(* two source streams, two participants; the hand-offs are recorded in     *)
(* tasks (the synchronous part of on_audio_complete), the spawned tasks    *)
(* are not run; each event is recorded in last_event.                      *)
(***************************************************************************)
Free(ctx) == Deliver(ctx, MaxFrames, 2 * MaxFrames, TRUE) /\ UNCHANGED script

Join == \E p \in JoinPairs : Free(SpeakingStateUpdate(p[1], Some(p[2]), TRUE))

\* a speaking-state update that is not a join: not of a microphone, or
\* without a participant id
OtherStateUpdate ==
    \E s \in Ssrcs, c \in StateUpdates : Free(SpeakingStateUpdate(s, c[1], c[2]))

StartTalking == \E s \in Ssrcs : Free(SpeakingUpdate(s, TRUE))

StopTalking == \E s \in Ssrcs : Free(SpeakingUpdate(s, FALSE))

Audio == \E s \in Ssrcs, k \in FrameKinds : Free(VoicePacket(s, k.n, k.z))

Leave == \E u \in Users : Free(ClientDisconnect(u))

Next ==
    \/ Join
    \/ OtherStateUpdate
    \/ StartTalking
    \/ StopTalking
    \/ Audio
    \/ Leave

Spec == Init /\ [][Next]_vars

(***************************************************************************)
(* SpecBuf: one source stream of one participant, every frame kind, the    *)
(* hand-offs recorded in tasks but the spawned tasks not run; each event   *)
(* is recorded in last_event.                                              *)
(***************************************************************************)
Logged(ctx) ==
    Deliver(ctx, MaxBufFrames, 2 * MaxBufFrames, TRUE) /\ UNCHANGED script

BufJoin == Logged(SpeakingStateUpdate(1, Some(1), TRUE))

BufStartTalking == Logged(SpeakingUpdate(1, TRUE))

BufStopTalking == Logged(SpeakingUpdate(1, FALSE))

BufAudio == \E k \in BufFrameKinds : Logged(VoicePacket(1, k.n, k.z))

BufLeave == Logged(ClientDisconnect(1))

NextBuf ==
    \/ BufJoin
    \/ BufStartTalking
    \/ BufStopTalking
    \/ BufAudio
    \/ BufLeave

SpecBuf == Init /\ [][NextBuf]_vars

(***************************************************************************)
(* SpecOrch: the orchestrator alone.  Clips arrive at on_audio_complete    *)
(* from any participant, the clock advances, the spawned tasks run.        *)
(***************************************************************************)
Clip(id, k) ==
    [runs |-> << [src |-> 0, id |-> id, n |-> k.n, z |-> k.z] >>, len |-> k.n]

ClipArrives ==
    /\ Len(tasks) < MaxClips
    /\ WorkerFree
    /\ \E u \in Users, k \in ClipKinds :
          tasks' = Append(tasks,
                          on_audio_complete(u, Clip(Len(tasks) + 1, k), 0, now))
    /\ UNCHANGED << routerVars, last_transcription, emitted, now, last_event,
                    nframes, script, worker_threads, resampler, pc, holder >>

Clock == Tick(Times)

NextOrch ==
    \/ ClipArrives
    \/ Clock
    \/ Read
    \/ Engine
    \/ Write
    \/ Emit

SpecOrch == Init /\ [][NextOrch]_vars

\* SpecOrch with every spawned task scheduled and the engine returning:
\* weak fairness of every task step
SpecOrchFair ==
    /\ Init
    /\ [][NextOrch]_vars
    /\ WF_vars(Read)
    /\ WF_vars(Engine)
    /\ WF_vars(Write)
    /\ WF_vars(Emit)

(***************************************************************************)
(* SpecE2E: the whole pipeline on the scenario "join, script.frames        *)
(* frames of 20 ms, stop talking" of participant 1 on source stream 1.     *)
(* Spawned tasks are scheduled and the engine returns: weak fairness of    *)
(* every task step.                                                        *)
(***************************************************************************)
Scripted(ctx) == Deliver(ctx, script.frames, script.frames, FALSE)

InitE2E ==
    /\ ssrc_to_user_voice_data = [s \in Ssrcs |-> None]
    /\ map_lock_poisoned = FALSE
    /\ tasks = <<>>
    /\ last_transcription = None
    /\ emitted = <<>>
    /\ now = 0
    /\ history = [s \in Ssrcs |-> NoHistory]
    /\ last_event = NoEvent("init")
    /\ nframes = 0
    /\ \E f \in ScenarioFrames :
          script = [phase |-> "start", frames |-> f, sent |-> 0]
    /\ worker_threads = DefaultWorkers
    /\ resampler = NoResampling
    /\ InitThreads

E2EJoin ==
    /\ script.phase = "start"
    /\ Scripted(SpeakingStateUpdate(1, Some(1), TRUE))
    /\ script' = [script EXCEPT !.phase = "speaking"]

E2EFrame ==
    /\ script.phase = "speaking"
    /\ script.sent < script.frames
    /\ Scripted(VoicePacket(1, AUDIO_SAMPLES_PER_FRAME * AUDIO_CHANNELS,
                            script.frames \in SilentScenarios))
    /\ script' = [script EXCEPT !.sent = @ + 1]

E2EStop ==
    /\ script.phase = "speaking"
    /\ script.sent = script.frames
    /\ Scripted(SpeakingUpdate(1, FALSE))
    /\ script' = [script EXCEPT !.phase = "stopped"]

NextE2E ==
    \/ E2EJoin
    \/ E2EFrame
    \/ E2EStop
    \/ Read
    \/ Engine
    \/ Write
    \/ Emit

SpecE2E ==
    /\ InitE2E
    /\ [][NextE2E]_vars
    /\ WF_vars(Read)
    /\ WF_vars(Engine)
    /\ WF_vars(Write)
    /\ WF_vars(Emit)

(***************************************************************************)
(* SpecDuo: the whole pipeline with two participants.  The transport       *)
(* delivers any event for either of them, script.frames frames are         *)
(* accepted in all, and the spawned tasks run concurrently with the        *)
(* router.  Each transport event is recorded in last_event.                *)
(***************************************************************************)
Mixed(ctx) ==
    Deliver(ctx, script.frames, script.frames, TRUE) /\ UNCHANGED script

InitDuo ==
    /\ ssrc_to_user_voice_data = [s \in Ssrcs |-> None]
    /\ map_lock_poisoned = FALSE
    /\ tasks = <<>>
    /\ last_transcription = None
    /\ emitted = <<>>
    /\ now = 0
    /\ history = [s \in Ssrcs |-> NoHistory]
    /\ last_event = NoEvent("init")
    /\ nframes = 0
    /\ \E f \in DuoBudget :
          script = [phase |-> "duo", frames |-> f, sent |-> 0]
    /\ worker_threads \in DuoWorkers
    /\ resampler = NoResampling
    /\ InitThreads

DuoJoin == \E p \in DuoPairs : Mixed(SpeakingStateUpdate(p[1], Some(p[2]), TRUE))

DuoStartTalking == \E s \in Ssrcs : Mixed(SpeakingUpdate(s, TRUE))

DuoStopTalking == \E s \in Ssrcs : Mixed(SpeakingUpdate(s, FALSE))

DuoAudio == \E s \in Ssrcs, k \in DuoFrameKinds : Mixed(VoicePacket(s, k.n, k.z))

DuoLeave == \E u \in Users : Mixed(ClientDisconnect(u))

NextDuo ==
    \/ DuoJoin
    \/ DuoStartTalking
    \/ DuoStopTalking
    \/ DuoAudio
    \/ DuoLeave
    \/ Read
    \/ Engine
    \/ Write
    \/ Emit

SpecDuo == InitDuo /\ [][NextDuo]_vars

(***************************************************************************)
(* SpecResample: resample_audio_from_discord_to_whisper on its own, called *)
(* once on a clip drawn from the bounded inputs.                           *)
(***************************************************************************)
RECURSIVE ClipsOfGroups(_)
\* the clips made of n whole groups
ClipsOfGroups(n) ==
    IF n = 0 THEN { <<>> }
    ELSE { c \o g : c \in ClipsOfGroups(n - 1), g \in Groups }

ResampleInputs ==
    UNION { { c \o t : c \in ClipsOfGroups(n), t \in Remainders } : n \in 0..MaxGroups }

InitResample ==
    /\ ssrc_to_user_voice_data = [s \in Ssrcs |-> None]
    /\ map_lock_poisoned = FALSE
    /\ tasks = <<>>
    /\ last_transcription = None
    /\ emitted = <<>>
    /\ now = 0
    /\ history = [s \in Ssrcs |-> NoHistory]
    /\ last_event = NoEvent("init")
    /\ nframes = 0
    /\ script = [phase |-> "free", frames |-> 0, sent |-> 0]
    /\ worker_threads = DefaultWorkers
    /\ \E audio \in ResampleInputs :
          resampler = [audio |-> audio, audio_out |-> None]
    /\ InitThreads

Resample ==
    /\ resampler.audio_out = None
    /\ resampler' = [resampler EXCEPT !.audio_out =
                        Some(resample_audio_from_discord_to_whisper(resampler.audio))]
    /\ UNCHANGED << routerVars, orchVars, now, last_event, nframes, script,
                    worker_threads, pc, holder >>

NextResample == Resample

SpecResample == InitResample /\ [][NextResample]_vars

(***************************************************************************)
(* SpecLocks: two invocations of act at a time and two spawned tasks, on   *)
(* a runtime of two or of four worker threads, seen at their lock sites.   *)
(***************************************************************************)
InitLocks ==
    /\ ssrc_to_user_voice_data = [s \in Ssrcs |-> None]
    /\ map_lock_poisoned = FALSE
    /\ tasks = <<>>
    /\ last_transcription = None
    /\ emitted = <<>>
    /\ now = 0
    /\ history = [s \in Ssrcs |-> NoHistory]
    /\ last_event = NoEvent("init")
    /\ nframes = 0
    /\ script = [phase |-> "locks", frames |-> 0, sent |-> 0]
    /\ worker_threads \in DuoWorkers \cup {DefaultWorkers}
    /\ resampler = NoResampling
    /\ InitThreads

\* the lock sites leave the sessions, the tasks' data and the clock alone
OnlyLocks ==
    UNCHANGED << routerVars, orchVars, now, last_event, nframes, script,
                 worker_threads, resampler >>

\* the steps of handler or task p
Step(p) ==
    /\ IF p \in Handlers
       THEN act_called(p) \/ act_log(p) \/ with_map(p) \/ with_ring(p)
       ELSE with_context(p) \/ task_runs(p)
    /\ OnlyLocks

NextLocks ==
    \/ \E h \in Handlers : act_called(h) /\ OnlyLocks
    \/ \E h \in Handlers : act_log(h) /\ OnlyLocks
    \/ \E h \in Handlers : with_map(h) /\ OnlyLocks
    \/ \E h \in Handlers : with_ring(h) /\ OnlyLocks
    \/ \E t \in LockTasks : with_context(t) /\ OnlyLocks
    \/ \E t \in LockTasks : task_runs(t) /\ OnlyLocks

SpecLocks == InitLocks /\ [][NextLocks]_vars

(***************************************************************************)
(* Properties of VoiceBuffer and VoiceBufferForUser, checked under         *)
(* SpecBuf.  A step of SpecBuf records the event it handled in             *)
(* last_event', so the unprimed variables are the state the handler found. *)
(***************************************************************************)
\* the session of source stream s and its ring
Session(s) == ssrc_to_user_voice_data[s][1]
Ring(s) == ssrc_to_user_voice_data[s][1].buffer

\* the clips of source stream s handed off after the first i entries of
\* tasks, in hand-off order
RECURSIVE ClipsOf(_, _)
ClipsOf(s, i) ==
    IF i >= Len(tasks) THEN <<>>
    ELSE (IF tasks[i + 1].ssrc = s THEN << tasks[i + 1].audio.runs >> ELSE <<>>)
         \o ClipsOf(s, i + 1)

\* this step handed exactly one clip, for source stream s, whose audio is
\* clip and whose participant is user_id
HandsOff(s, user_id, clip) ==
    /\ Len(tasks') = Len(tasks) + 1
    /\ SubSeq(tasks', 1, Len(tasks)) = tasks
    /\ tasks'[Len(tasks')].audio = clip
    /\ tasks'[Len(tasks')].ssrc = s
    /\ tasks'[Len(tasks')].user_id = user_id

\* this step is a push of a frame into the speaking session of s whose ring
\* has less room than the frame is long
OverflowingPush(s) ==
    /\ last_event'.ran
    /\ last_event'.ctx.kind = "VoicePacket"
    /\ last_event'.ctx.ssrc = s
    /\ Tracked(ssrc_to_user_voice_data, s)
    /\ Session(s).speaking
    /\ AUDIO_BUFFER_SIZE - Ring(s).len < last_event'.ctx.audio[1].n

\* C1: when a frame is pushed into a speaking session whose ring has less
\* free room than the frame is long, the ring's contents are handed off as
\* one clip and the ring then holds only that frame (as much of it as the
\* ring can hold); in every state a ring holds at most AUDIO_BUFFER_SIZE
\* samples.
C1_FlushBeforeOverrun ==
    /\ [](\A s \in Ssrcs :
            Tracked(ssrc_to_user_voice_data, s) =>
                /\ Ring(s).len <= AUDIO_BUFFER_SIZE
                /\ Ring(s).len = SampleCount(Ring(s).runs))
    /\ [][\A s \in Ssrcs :
            OverflowingPush(s) =>
                LET frame == last_event'.ctx.audio[1]
                    kept == [frame EXCEPT !.n = Min(frame.n, AUDIO_BUFFER_SIZE)]
                IN  /\ HandsOff(s, Session(s).user_id, Ring(s))
                    /\ ssrc_to_user_voice_data'[s][1].buffer
                          = [runs |-> << kept >>, len |-> kept.n]
                    /\ ssrc_to_user_voice_data'[s][1].speaking]_vars

\* a push has just flushed a non-empty ring and left only its frame behind
C1_Witness ==
    /\ last_event.ran
    /\ last_event.ctx.kind = "VoicePacket"
    /\ last_event.handed = 1
    /\ tasks[Len(tasks)].audio.len > 0
    /\ tasks[Len(tasks)].audio.len + last_event.ctx.audio[1].n > AUDIO_BUFFER_SIZE
    /\ Ring(1).runs = << last_event.ctx.audio[1] >>

\* C2: for a tracked session all of whose pushed frames are no longer than
\* the ring, the clips handed off since the session was created, in order,
\* followed by the ring's contents are exactly the frames pushed while it
\* was speaking, in arrival order.
C2_NoSampleLostOrReordered ==
    \A s \in Ssrcs :
        ( /\ Tracked(ssrc_to_user_voice_data, s)
          /\ \A i \in 1..Len(history[s].pushed) :
                 history[s].pushed[i].n <= AUDIO_BUFFER_SIZE )
        => Flatten(ClipsOf(s, history[s].first)) \o Ring(s).runs
             = history[s].pushed

\* three frames pushed: clips were handed off by an overflow and by a stop,
\* and the ring holds audio again
C2_Witness ==
    /\ Tracked(ssrc_to_user_voice_data, 1)
    /\ Len(history[1].pushed) = 3
    /\ \A i \in 1..3 : history[1].pushed[i].n <= AUDIO_BUFFER_SIZE
    /\ Len(ClipsOf(1, history[1].first)) >= 2
    /\ Ring(1).len > 0

C4_DurationFilter ==
    \A i \in 1..Len(tasks) :
        LET d == (tasks[i].audio.len \div 2) \div 48
        IN  /\ tasks[i].audio_duration_ms = d
            /\ (tasks[i].pc = "dropped") <=> (d < 500)
            /\ tasks[i].pc \in {"dropped", "spawned"}

\* a clip of 499 ms was dropped and a clip of 500 ms (48000 samples) kept
C4_Witness ==
    \E i, j \in 1..Len(tasks) :
        /\ tasks[i].audio_duration_ms = 499 /\ tasks[i].pc = "dropped"
        /\ tasks[j].audio.len = 48000 /\ tasks[j].audio_duration_ms = 500
        /\ tasks[j].pc = "spawned"

(***************************************************************************)
(* Properties of the context carry-over, checked under SpecOrch.           *)
(* A task's start_ms is the instant on_audio_complete received its clip,   *)
(* a context's end_ms the instant its utterance's transcription ended;     *)
(* unixsecs and timestamp are the whole seconds the program keeps of them. *)
(***************************************************************************)
\* task i takes its read step in this step
ReadsContext(i) ==
    /\ i \in 1..Len(tasks)
    /\ tasks[i].pc = "spawned"
    /\ tasks'[i].pc = "read"

C6_CarryoverBoundary ==
    [][\A i \in 1..Len(tasks) :
          ( /\ ReadsContext(i)
            /\ last_transcription # None
            /\ last_transcription[1].user_id = tasks[i].user_id )
          => LET gap == tasks[i].start_ms - last_transcription[1].end_ms
             IN  /\ gap = 4900 => tasks'[i].ctx = last_transcription
                 /\ gap = 5100 => tasks'[i].ctx = None]_vars

(***************************************************************************)
(* Properties of the session router, checked under Spec.                   *)
(***************************************************************************)
\* C7: a leave of participant u removes exactly the sessions whose
\* participant is u, without any hand-off; while a source stream is
\* untracked, audio and speaking signals for it change neither the map nor
\* the hand-offs, and only a join for it makes it tracked again.
C7_LeaveRemovesExactly ==
    /\ [][\A u \in Users :
            ( /\ last_event'.ran
              /\ last_event'.ctx.kind = "ClientDisconnect"
              /\ last_event'.ctx.user_id = Some(u) )
            => /\ \A s \in Ssrcs :
                    ssrc_to_user_voice_data'[s] =
                        IF Tracked(ssrc_to_user_voice_data, s)
                           /\ Session(s).user_id = u
                        THEN None
                        ELSE ssrc_to_user_voice_data[s]
               /\ tasks' = tasks]_vars
    /\ [][\A s \in Ssrcs :
            ( /\ ~Tracked(ssrc_to_user_voice_data, s)
              /\ last_event'.ran
              /\ ~(IsJoin(last_event'.ctx) /\ last_event'.ctx.ssrc = s) )
            => /\ ~Tracked(ssrc_to_user_voice_data', s)
               /\ ( last_event'.ctx.kind \in {"VoicePacket", "SpeakingUpdate"}
                    /\ last_event'.ctx.ssrc = s )
                  => /\ ssrc_to_user_voice_data' = ssrc_to_user_voice_data
                     /\ tasks' = tasks]_vars

\* participant 1 has left, its source stream 1 is untracked since, an
\* audio frame for it has just been handled, and the session of
\* participant 2 on source stream 2 still holds its audio
C7_Witness ==
    /\ last_event.ran
    /\ last_event.ctx.kind = "VoicePacket"
    /\ last_event.ctx.ssrc = 1
    /\ history[1].left
    /\ ~Tracked(ssrc_to_user_voice_data, 1)
    /\ Tracked(ssrc_to_user_voice_data, 2)
    /\ Session(2).user_id = 2
    /\ Ring(2).len > 0
    /\ tasks = <<>>

(***************************************************************************)
(* End-to-end scenarios, checked under SpecE2E: participant 1 joins on     *)
(* source stream 1, script.frames frames of 20 ms (1920 interleaved        *)
(* samples) arrive, then the stop-talking signal.                          *)
(***************************************************************************)
\* the spawned tasks that have ended without a message
EndedSilently == { i \in 1..Len(tasks) : tasks[i].pc \in {"empty", "engine_panic"} }

\* C8: 2000 ms of audio in 20 ms frames, then stop: the clip handed off is
\* 2000 ms long, at most one message is ever emitted, it is for the
\* participant and carries audio_duration_ms = 2000; and unless the engine
\* fails or returns no segment, the message is eventually emitted.
C8_TwoSecondsOneMessage ==
    /\ [](script.frames = 100 =>
            /\ Len(emitted) <= 1
            /\ \A k \in 1..Len(emitted) :
                  /\ emitted[k].user_id = 1
                  /\ emitted[k].audio_duration_ms = 2000
            /\ script.phase = "stopped" =>
                  /\ Len(tasks) = 1
                  /\ tasks[1].audio.len = 100 * 1920)
    /\ (script.frames = 100 /\ script.phase = "stopped")
          ~> (Len(emitted) = 1 \/ EndedSilently # {})
    /\ [][script.frames = 100 /\ Len(emitted) = 1 => emitted' = emitted]_vars

\* the 2000 ms scenario has ended with its one message
C8_Witness ==
    /\ script.frames = 100
    /\ script.phase = "stopped"
    /\ Len(tasks) = 1
    /\ tasks[1].pc = "emitted"
    /\ Len(emitted) = 1
    /\ emitted[1].audio_duration_ms = 2000

\* C9: 300 ms of audio, then stop: the stop hands off one clip of 300 ms and
\* leaves the ring empty, on_audio_complete drops the clip before spawning
\* a task, the shared context stays as it was and nothing is ever emitted.
C9_ShortUtteranceDropped ==
    script.frames = 15 =>
        /\ emitted = <<>>
        /\ last_transcription = None
        /\ \A i \in 1..Len(tasks) : tasks[i].pc = "dropped"
        /\ script.phase = "speaking" => tasks = <<>>
        /\ script.phase = "stopped" =>
              /\ Len(tasks) = 1
              /\ tasks[1].audio.len = 15 * 1920
              /\ tasks[1].audio_duration_ms = 300
              /\ Ring(1) = Empty
              /\ ~Session(1).speaking

\* the 300 ms scenario has ended
C9_Witness ==
    /\ script.frames = 15
    /\ script.phase = "stopped"
    /\ Len(history[1].pushed) = 15
    /\ Len(tasks) = 1
    /\ tasks[1].pc = "dropped"

\* C10: frames of 20 ms beyond the ring's capacity: the first 1500 frames
\* fill the ring without any hand-off, frame 1501 hands off one clip of
\* exactly AUDIO_BUFFER_SIZE samples (1500 frames, 30000 ms) and becomes the
\* first content of the ring, the session stays speaking, and every frame
\* is in the clip or in the ring, in order.
C10_FlushAtCapacity ==
    (script.frames = 1502 /\ script.phase = "speaking") =>
        /\ Session(1).speaking
        /\ Len(history[1].pushed) = script.sent
        /\ Flatten(ClipsOf(1, 0)) \o Ring(1).runs = history[1].pushed
        /\ \A k \in 1..Len(Ring(1).runs) : Ring(1).runs[k].n = 1920
        /\ script.sent <= 1500 =>
              /\ tasks = <<>>
              /\ Ring(1).len = script.sent * 1920
        /\ script.sent > 1500 =>
              /\ Len(tasks) = 1
              /\ tasks[1].audio.len = AUDIO_BUFFER_SIZE
              /\ Len(tasks[1].audio.runs) = 1500
              /\ tasks[1].audio_duration_ms = 30000
              /\ Ring(1).runs[1].id = 1501
              /\ Ring(1).len = (script.sent - 1500) * 1920

\* frame 1502 has been buffered behind frame 1501 after the flush
C10_Witness ==
    /\ script.frames = 1502
    /\ script.phase = "speaking"
    /\ script.sent = 1502
    /\ Len(tasks) = 1
    /\ tasks[1].audio.len = AUDIO_BUFFER_SIZE
    /\ Ring(1).len = 2 * 1920

(***************************************************************************)
(* Properties of the spawned task, checked under SpecOrch.                 *)
(***************************************************************************)
\* the messages emitted for task i
MessagesOf(i) == { k \in 1..Len(emitted) : emitted[k].task = i }

\* C11: when the engine returns no segment for a task, the step leaves the
\* shared context and the emitted messages as they were, the task takes no
\* further step, no message of it exists and the shared context is never
\* one written by it.
C11_EmptyResultLeavesContext ==
    /\ [][\A i \in 1..Len(tasks) :
            (tasks[i].pc = "read" /\ tasks'[i].pc = "empty")
            => /\ last_transcription' = last_transcription
               /\ emitted' = emitted]_vars
    /\ [][\A i \in 1..Len(tasks) :
            tasks[i].pc = "empty" => tasks'[i] = tasks[i]]_vars
    /\ [](\A i \in 1..Len(tasks) :
            tasks[i].pc = "empty" =>
                /\ MessagesOf(i) = {}
                /\ last_transcription # None => last_transcription[1].tokens # i)

\* the engine returned no segment for a task that had been given the
\* context of an earlier utterance, and that context is still the shared one
C11_Witness ==
    \E i \in 1..Len(tasks) :
        /\ tasks[i].pc = "empty"
        /\ tasks[i].ctx # None
        /\ last_transcription = tasks[i].ctx

\* where task i is, "none" before its clip has arrived
PcOf(i) == IF i \in 1..Len(tasks) THEN tasks[i].pc ELSE "none"

\* C12: every clip for which a task was spawned eventually has its message
\* emitted, unless the engine returned no segment or failed for it; and no
\* clip ever has more than one message.
C12_EveryClipOneMessage ==
    /\ \A i \in 1..MaxClips :
          (PcOf(i) = "spawned")
            ~> ( \/ PcOf(i) \in {"empty", "engine_panic"}
                 \/ PcOf(i) = "emitted" /\ Cardinality(MessagesOf(i)) = 1 )
    /\ [](\A i \in 1..Len(tasks) : Cardinality(MessagesOf(i)) <= 1)

(***************************************************************************)
(* Properties of the whole pipeline, checked under SpecDuo.                *)
(***************************************************************************)
EnginePanics(i) ==
    /\ i \in 1..Len(tasks)
    /\ tasks[i].pc = "read"
    /\ tasks'[i].pc = "engine_panic"

\* the next step of task j can be taken
CanStep(j) ==
    CASE tasks[j].pc = "spawned" -> WorkerFree => ENABLED TaskRead(j)
      [] tasks[j].pc = "read" -> ENABLED TaskEngine(j)
      [] tasks[j].pc = "transcribed" -> ENABLED TaskWrite(j)
      [] tasks[j].pc = "written" -> ENABLED TaskEmit(j)
      [] OTHER -> TRUE

\* C13: when the engine call of one task fails, that step changes nothing
\* but the task itself: the shared context, the messages, the session map,
\* its lock and every other task are as before, and the task's worker is
\* free again.  The failed task never takes another step (no retry), never
\* emits a message and never owns the shared context, and every other task
\* that has not ended can take its next step.
C13_EngineFailureAbortsOneTask ==
    /\ [][\A i \in 1..Len(tasks) : EnginePanics(i) =>
            /\ last_transcription' = last_transcription
            /\ emitted' = emitted
            /\ ssrc_to_user_voice_data' = ssrc_to_user_voice_data
            /\ map_lock_poisoned' = map_lock_poisoned
            /\ Len(tasks') = Len(tasks)
            /\ \A j \in 1..Len(tasks) : j # i => tasks'[j] = tasks[j]
            /\ i \notin Running']_vars
    /\ [][\A i \in 1..Len(tasks) :
            tasks[i].pc = "engine_panic" => tasks'[i] = tasks[i]]_vars
    /\ [](\A i \in 1..Len(tasks) :
            tasks[i].pc = "engine_panic" =>
                /\ MessagesOf(i) = {}
                /\ last_transcription # None => last_transcription[1].tokens # i
                /\ \A j \in 1..Len(tasks) : j # i => CanStep(j))

\* a task's engine call has failed while the other participant's task is
\* inside the engine and a session is tracked
C13_Witness ==
    \E i, j \in 1..Len(tasks) :
        /\ tasks[i].pc = "engine_panic"
        /\ tasks[j].pc = "read"
        /\ \E s \in Ssrcs : ssrc_to_user_voice_data[s] # None

(***************************************************************************)
(* Events for a source stream without a session, checked under Spec.       *)
(***************************************************************************)
\* the event just handled was a start-talking, audio or stop-talking event
\* for source stream s
ForSsrc(ev, s) ==
    /\ ev.ran
    /\ ev.ctx.kind \in {"SpeakingUpdate", "VoicePacket"}
    /\ ev.ctx.ssrc = s

\* C14: a start-talking, audio or stop-talking event for a source stream
\* that has no session is handled without failure and without effect: the
\* map is the same (no session created, every session's ring and speaking
\* flag as before), the map's lock is not poisoned by it, and no clip is
\* handed off.
C14_UntrackedEventIsNoOp ==
    [][\A s \in Ssrcs :
         (ssrc_to_user_voice_data[s] = None /\ ForSsrc(last_event', s))
         => /\ ssrc_to_user_voice_data' = ssrc_to_user_voice_data
            /\ map_lock_poisoned' = map_lock_poisoned
            /\ ~last_event'.panic
            /\ last_event'.handed = 0
            /\ tasks' = tasks]_vars

\* a stop-talking event for the untracked source stream 1 has just been
\* handled while participant 2 is speaking on source stream 2 with audio
\* in its ring
C14_Witness ==
    /\ ForSsrc(last_event, 1)
    /\ last_event.ctx.kind = "SpeakingUpdate"
    /\ ~last_event.ctx.flag
    /\ ssrc_to_user_voice_data[1] = None
    /\ Tracked(ssrc_to_user_voice_data, 2)
    /\ Session(2).speaking
    /\ Ring(2).len > 0

(***************************************************************************)
(* Audio for a session that is not speaking, checked under SpecBuf.        *)
(***************************************************************************)
\* the event just handled was an audio frame for source stream s; zero
\* says whether all its samples are zero
AudioFor(ev, s, zero) ==
    /\ ev.ran
    /\ ev.ctx.kind = "VoicePacket"
    /\ ev.ctx.ssrc = s
    /\ ev.ctx.audio[1].z = zero

\* C15: an audio frame with a non-zero sample that arrives for a session
\* whose speaking flag is false changes nothing: the session (ring and
\* speaking flag) is as before and no clip is handed off.
C15_NonZeroWhileSilentRejected ==
    [][\A s \in Ssrcs :
         ( /\ Tracked(ssrc_to_user_voice_data, s)
           /\ ~Session(s).speaking
           /\ AudioFor(last_event', s, FALSE) )
         => /\ ssrc_to_user_voice_data' = ssrc_to_user_voice_data
            /\ last_event'.handed = 0
            /\ tasks' = tasks]_vars

\* a non-zero frame has just been handled for the session of source
\* stream 1, which stopped speaking after audio had been buffered for it
C15_Witness ==
    /\ AudioFor(last_event, 1, FALSE)
    /\ Tracked(ssrc_to_user_voice_data, 1)
    /\ ~Session(1).speaking
    /\ history[1].pushed # <<>>
    /\ tasks # <<>>

(***************************************************************************)
(* The conditions that are not fatal, checked under SpecDuo.               *)
(***************************************************************************)
\* a step of the router: the tasks that exist keep their state
RouterStep == SubSeq(tasks', 1, Len(tasks)) = tasks

\* the step meets one of the conditions that are not fatal, for source
\* stream s: an event for s while s has no session, a non-zero frame while
\* the session of s is not speaking, a frame without samples, a clip of s
\* shorter than MIN_AUDIO_THRESHOLD_MS handed off, an engine failure or an
\* empty result for a clip of s
NonFatal(s) ==
    \/ /\ RouterStep
       /\ \/ ssrc_to_user_voice_data[s] = None /\ ForSsrc(last_event', s)
          \/ /\ Tracked(ssrc_to_user_voice_data, s)
             /\ ~Session(s).speaking
             /\ AudioFor(last_event', s, FALSE)
          \/ /\ last_event'.ctx.kind = "VoicePacket"
             /\ last_event'.ctx.ssrc = s
             /\ last_event'.ctx.audio[1].n = 0
    \/ /\ RouterStep
       /\ \E k \in (Len(tasks) + 1)..Len(tasks') :
             tasks'[k].pc = "dropped" /\ tasks'[k].ssrc = s
    \/ \E i \in 1..Len(tasks) :
          /\ tasks[i].ssrc = s
          /\ tasks[i].pc = "read"
          /\ tasks'[i].pc \in {"engine_panic", "empty"}

\* C16: a step that meets one of the non-fatal conditions for one source
\* stream leaves the session of every other source stream as it was
\* (tracked, same ring, same speaking flag), does not poison the map's
\* lock and does not take the last idle worker, so that the events that
\* follow for the other sessions are handled as before.
C16_NonFatalLeavesOthers ==
    [][\A s \in Ssrcs : NonFatal(s) =>
         /\ \A o \in Ssrcs :
               o # s => ssrc_to_user_voice_data'[o] = ssrc_to_user_voice_data[o]
         /\ map_lock_poisoned' = map_lock_poisoned
         /\ WorkerFree =>
               Cardinality({ i \in 1..Len(tasks') :
                              tasks'[i].pc \in {"read", "transcribed", "written"} })
                  < worker_threads']_vars

\* a frame without samples has just been ignored and a clip of source
\* stream 1 was dropped as too short, while participant 2 is speaking with
\* audio in its ring
C16_Witness ==
    /\ last_event.ctx.kind = "VoicePacket"
    /\ last_event.ctx.audio[1].n = 0
    /\ \E i \in 1..Len(tasks) : tasks[i].pc = "dropped" /\ tasks[i].ssrc = 1
    /\ Tracked(ssrc_to_user_voice_data, 2)
    /\ Session(2).speaking
    /\ Ring(2).len > 0

(***************************************************************************)
(* Silence, checked under SpecE2E: participant 1 joins, 25 frames of       *)
(* 20 ms whose samples are all zero arrive, then the stop-talking signal.  *)
(***************************************************************************)
\* the tasks that have run line 116, the call of
\* resample_audio_from_discord_to_whisper on their clip
Resampled == { i \in 1..Len(tasks) : tasks[i].pc \notin {"dropped", "spawned"} }

EmptyFrameFor(ev, s) ==
    /\ ev.ctx.kind = "VoicePacket"
    /\ ev.ctx.ssrc = s
    /\ ev.ctx.audio[1].n = 0

\* C18: an audio frame without samples is not passed to PacketHandler::act
\* and its arrival changes nothing: the map (sessions, rings, speaking
\* flags) is as before, nothing is flushed and no clip is handed off.
C18_EmptyFrameIgnored ==
    [][\A s \in Ssrcs :
         (RouterStep /\ EmptyFrameFor(last_event', s))
         => /\ ~last_event'.ran
            /\ last_event'.handed = 0
            /\ ssrc_to_user_voice_data' = ssrc_to_user_voice_data
            /\ map_lock_poisoned' = map_lock_poisoned
            /\ tasks' = tasks
            /\ history' = history
            /\ nframes' = nframes]_vars

\* a frame without samples has just arrived for source stream 1, whose
\* session is speaking with audio in its ring
C18_Witness ==
    /\ EmptyFrameFor(last_event, 1)
    /\ Tracked(ssrc_to_user_voice_data, 1)
    /\ Session(1).speaking
    /\ Ring(1).len > 0

(***************************************************************************)
(* Properties of resample_audio_from_discord_to_whisper, checked under     *)
(* SpecResample.                                                           *)
(***************************************************************************)
\* the sum of samples 6i and 6i+1 (counted from 0) of the clip, for the
\* output sample i counted from 0: here i and the positions count from 1
SlotSum(audio, i) == audio[6 * (i - 1) + 1] + audio[6 * (i - 1) + 2]

\* C19: the result for a clip of n samples has floor(n / 6) samples;
\* sample i is the quotient of the sum of the clip's samples 6i and 6i+1 by
\* the largest absolute value of these sums over the clip; for a clip whose
\* samples are all 100 every sample of the result is exactly 1.0.
C19_ResampleValues ==
    resampler.audio_out # None =>
        LET audio == resampler.audio
            out == resampler.audio_out[1]
        IN  /\ Len(out) = Len(audio) \div 6
            /\ \A i \in 1..Len(out) :
                  /\ out[i].num = SlotSum(audio, i)
                  /\ \A k \in 1..Len(out) : Abs(SlotSum(audio, k)) <= out[i].den
                  /\ \E k \in 1..Len(out) : Abs(SlotSum(audio, k)) = out[i].den
            /\ (\A k \in 1..Len(audio) : audio[k] = 100)
                  => \A i \in 1..Len(out) : IsOne(out[i])

\* the result for a clip of two groups and one more sample, whose sums are
\* 200 and -100 and whose other samples are not zero: 1.0 and -0.5
C19_Witness ==
    /\ resampler.audio = << 100, 100, 100, 100, 100, 100,
                            -100, 0, 100, 100, 100, 100, 100 >>
    /\ resampler.audio_out = Some(<< F32Div(200, 200), F32Div(-100, 200) >>)
    /\ IsOne(resampler.audio_out[1][1])

(***************************************************************************)
(* The router and the engine, checked under SpecDuo.                       *)
(***************************************************************************)
\* the transport's next event is handled, whichever kind it is: a join, a
\* start-talking or stop-talking signal, an audio frame, a leave
RouterCanStep ==
    /\ ENABLED DuoJoin
    /\ ENABLED DuoStartTalking
    /\ ENABLED DuoStopTalking
    /\ ENABLED DuoAudio
    /\ ENABLED DuoLeave

\* C20: however many tasks are waiting or inside the engine, the router can
\* take the next transport event of every kind: no event waits for a
\* transcription to end.
C20_RouterNeverWaitsForEngine == RouterCanStep

\* the router is held up by nothing but the engine: while a worker thread
\* is idle every kind of event is handled
C20_RouterStepsWhileWorkerIdle == WorkerFree => RouterCanStep

(***************************************************************************)
(* Interleavings of the spawned tasks, checked under SpecOrch.             *)
(***************************************************************************)
\* the step is task j's read or task j's overwrite of the shared context
TouchesContext(j) ==
    /\ j \in 1..Len(tasks)
    /\ \/ tasks[j].pc = "spawned" /\ tasks'[j].pc \in {"read", "overflow_panic"}
       \/ tasks[j].pc = "transcribed" /\ tasks'[j].pc = "written"

\* C21: between a task's read of the shared context and its overwrite of
\* it, no other task reads or overwrites the context.  Stated for a task
\* that has read the context and whose engine call has returned segments,
\* so that its overwrite is the one step it has left before emitting.
C21_ReadToWriteExclusive ==
    [][\A i, j \in 1..Len(tasks) :
         (i # j /\ tasks[i].pc = "transcribed") => ~TouchesContext(j)]_vars

(***************************************************************************)
(* Joins, checked under Spec.                                              *)
(***************************************************************************)
\* the event just handled was a join of participant u on source stream s
JoinOf(ev, s, u) ==
    /\ ev.ran
    /\ IsJoin(ev.ctx)
    /\ ev.ctx.ssrc = s
    /\ ev.ctx.user_id = Some(u)

\* the map after a join of u on s that replaced whatever s had: a new
\* session of u, speaking, with an empty ring, and nothing handed off
JoinedAfresh(s, u) ==
    /\ ssrc_to_user_voice_data' =
          [ssrc_to_user_voice_data EXCEPT ![s] = Some(VoiceBufferForUser_new(u, u))]
    /\ last_event'.handed = 0
    /\ tasks' = tasks

\* C22: after a join of participant u on source stream s the map holds for
\* s a session of u that is speaking and has an empty ring, whether s had a
\* session before or not; the audio buffered in a session that existed is
\* dropped and not handed off.
C22_JoinAlwaysResets ==
    [][\A s \in Ssrcs, u \in Users :
         JoinOf(last_event', s, u) => JoinedAfresh(s, u)]_vars

\* the same for the joins that find no session or a session of the same
\* participant
C22_JoinOfSameParticipantResets ==
    [][\A s \in Ssrcs, u \in Users :
         ( /\ JoinOf(last_event', s, u)
           /\ Tracked(ssrc_to_user_voice_data, s) => Session(s).user_id = u )
         => JoinedAfresh(s, u)]_vars

\* C23: a join of participant u on a source stream that has a session
\* finds it to be a session of u: the assertion in on_user_join holds and
\* the handler does not panic with the map locked.
C23_JoinAssertionNeverFails ==
    [][\A s \in Ssrcs, u \in Users :
         (JoinOf(last_event', s, u) /\ Tracked(ssrc_to_user_voice_data, s))
         => /\ Session(s).user_id = u
            /\ ~last_event'.panic
            /\ ~map_lock_poisoned']_vars

(***************************************************************************)
(* Frames and flush boundaries, checked under SpecBuf.                     *)
(***************************************************************************)
\* the runs of source stream s that left VoiceBuffer::push: those of the
\* clips handed off since the session was created, then those in the ring
RunsOf(s) == Flatten(ClipsOf(s, history[s].first)) \o Ring(s).runs

\* C24: for a tracked session all of whose pushed frames are no longer than
\* the ring, every piece of a clip handed off and every piece in the ring
\* is one pushed frame, whole, and every pushed frame is exactly one such
\* piece: no frame is cut by a flush.
C24_FrameNeverSplit ==
    \A s \in Ssrcs :
        ( /\ Tracked(ssrc_to_user_voice_data, s)
          /\ \A i \in 1..Len(history[s].pushed) :
                 history[s].pushed[i].n <= AUDIO_BUFFER_SIZE )
        => /\ \A k \in 1..Len(RunsOf(s)) :
                 \E i \in 1..Len(history[s].pushed) :
                     RunsOf(s)[k] = history[s].pushed[i]
           /\ \A i \in 1..Len(history[s].pushed) :
                 Cardinality({ k \in 1..Len(RunsOf(s)) :
                                 RunsOf(s)[k].id = history[s].pushed[i].id }) = 1

\* a frame that did not fit has just caused a flush: the clip handed off
\* ends with the frame before it and the ring holds the new frame, whole
C24_Witness ==
    /\ AudioFor(last_event, 1, FALSE)
    /\ last_event.handed = 1
    /\ Tracked(ssrc_to_user_voice_data, 1)
    /\ Len(history[1].pushed) = 2
    /\ history[1].pushed[2].n = AUDIO_BUFFER_SIZE - 47999
    /\ tasks[Len(tasks)].audio.runs = << history[1].pushed[1] >>
    /\ Ring(1).runs = << history[1].pushed[2] >>

(***************************************************************************)
(* The speaking flag, checked under Spec.                                  *)
(***************************************************************************)
\* the event just handled was a start-talking (flag) or stop-talking (not
\* flag) signal for source stream s
SignalFor(ev, s, flag) ==
    /\ ev.ran
    /\ ev.ctx.kind = "SpeakingUpdate"
    /\ ev.ctx.ssrc = s
    /\ ev.ctx.flag = flag

\* the speaking flag of the session of s differs before and after the step
FlagChanges(s) ==
    /\ Tracked(ssrc_to_user_voice_data, s)
    /\ Tracked(ssrc_to_user_voice_data', s)
    /\ ssrc_to_user_voice_data'[s][1].speaking # Session(s).speaking

\* C25: a join that completes and a start-talking signal leave the session
\* of their source stream speaking, a stop-talking signal leaves it not
\* speaking; the flag of a session that stays in the map changes in no
\* other step: not when an audio frame arrives, whatever it holds, and not
\* when a participant leaves.
C25_FlagOnlyOnSignals ==
    /\ [][\A s \in Ssrcs :
            /\ (\E u \in Users : JoinOf(last_event', s, u) /\ ~last_event'.panic)
                  => ssrc_to_user_voice_data'[s][1].speaking
            /\ (SignalFor(last_event', s, TRUE) /\ Tracked(ssrc_to_user_voice_data, s))
                  => ssrc_to_user_voice_data'[s][1].speaking
            /\ (SignalFor(last_event', s, FALSE) /\ Tracked(ssrc_to_user_voice_data, s))
                  => ~ssrc_to_user_voice_data'[s][1].speaking]_vars
    /\ [][\A s \in Ssrcs :
            FlagChanges(s) =>
                \/ \E u \in Users : JoinOf(last_event', s, u)
                \/ SignalFor(last_event', s, ssrc_to_user_voice_data'[s][1].speaking)]_vars
    /\ [][last_event'.ctx.kind \in {"VoicePacket", "ClientDisconnect"}
            => \A s \in Ssrcs : ~FlagChanges(s)]_vars

\* a frame with non-zero samples has just arrived for the session of source
\* stream 1, which is not speaking and stays so, while the session of source
\* stream 2 is speaking
C25_Witness ==
    /\ AudioFor(last_event, 1, FALSE)
    /\ Tracked(ssrc_to_user_voice_data, 1)
    /\ ~Session(1).speaking
    /\ Tracked(ssrc_to_user_voice_data, 2)
    /\ Session(2).speaking

(***************************************************************************)
(* Order of the context write and the message, checked under SpecOrch.     *)
(***************************************************************************)
\* C26: the step in which a task with segments replaces the shared context
\* stores a context of the task's participant, stamped with the whole
\* seconds of the task's end time and made of this task's tokens, and
\* emits nothing; a message is emitted only by a task that has made that
\* replace, in a later step that leaves the context alone.
C26_WriteThenEmit ==
    /\ [][\A i \in 1..Len(tasks) :
            (tasks[i].pc = "transcribed" /\ tasks'[i].pc # "transcribed")
            => /\ tasks'[i].pc = "written"
               /\ last_transcription' # None
               /\ last_transcription'[1].user_id = tasks[i].user_id
               /\ last_transcription'[1].timestamp = tasks[i].end_ms \div 1000
               /\ last_transcription'[1].tokens = i
               /\ emitted' = emitted]_vars
    /\ [][\A k \in (Len(emitted) + 1)..Len(emitted') :
            /\ tasks[emitted'[k].task].pc = "written"
            /\ emitted'[k].user_id = tasks[emitted'[k].task].user_id
            /\ last_transcription' = last_transcription]_vars
    /\ [](\A k \in 1..Len(emitted) : tasks[emitted[k].task].pc = "emitted")

\* a task that ended at 5100 ms has emitted its message and the shared
\* context is the one it wrote, stamped 5
C26_Witness ==
    \E i \in 1..Len(tasks) :
        /\ tasks[i].pc = "emitted"
        /\ tasks[i].end_ms = 5100
        /\ MessagesOf(i) # {}
        /\ last_transcription # None
        /\ last_transcription[1].tokens = i
        /\ last_transcription[1].timestamp = 5

(***************************************************************************)
(* Speaking-state updates that are not joins, checked under Spec.          *)
(***************************************************************************)
\* C27: a speaking-state update that is not of a microphone, or that has
\* no participant id, changes nothing: no session is created or reset, the
\* map with every ring and flag is as before, and nothing is handed off.
C27_OnlyMicrophoneWithParticipant ==
    [][( /\ last_event'.ran
         /\ last_event'.ctx.kind = "SpeakingStateUpdate"
         /\ ~last_event'.ctx.flag \/ last_event'.ctx.user_id = None )
       => /\ ssrc_to_user_voice_data' = ssrc_to_user_voice_data
          /\ map_lock_poisoned' = map_lock_poisoned
          /\ ~last_event'.panic
          /\ last_event'.handed = 0
          /\ tasks' = tasks
          /\ history' = history]_vars

\* a speaking-state update of participant 1 without the microphone flag
\* has just been handled for source stream 1, whose session of participant
\* 1 is not speaking, while source stream 2 has no session
C27_Witness ==
    /\ last_event.ran
    /\ last_event.ctx.kind = "SpeakingStateUpdate"
    /\ last_event.ctx.ssrc = 1
    /\ last_event.ctx.user_id = Some(1)
    /\ ~last_event.ctx.flag
    /\ Tracked(ssrc_to_user_voice_data, 1)
    /\ ~Session(1).speaking
    /\ ssrc_to_user_voice_data[2] = None

(***************************************************************************)
(* Order of the messages, checked under SpecOrch.  The tasks are numbered  *)
(* in the order of the hand-offs of their clips.                           *)
(***************************************************************************)
\* the message of task j was emitted before the message of task i
EmittedBefore(j, i) ==
    \E k, l \in 1..Len(emitted) :
        k < l /\ emitted[k].task = j /\ emitted[l].task = i

\* C28: no task waits for the task of a clip of another participant that
\* was handed off earlier: while that one has not ended, the later task can
\* take its next step, its callback included, so the later clip's message
\* can be emitted first.
C28_NoOrderAcrossParticipants ==
    \A i, j \in 1..Len(tasks) :
        (i < j /\ tasks[i].user_id # tasks[j].user_id /\ ~Ended(i)) => CanStep(j)

\* the clip of participant 1 was handed off first, then the clip of
\* participant 2, and the message of participant 2 was emitted before the
\* message of participant 1
C28_Witness ==
    /\ Len(tasks) = 2
    /\ tasks[1].user_id = 1
    /\ tasks[2].user_id = 2
    /\ tasks[1].start_ms < tasks[2].start_ms
    /\ EmittedBefore(2, 1)

\* C29: no task waits for the task of an earlier clip of its own
\* participant either: while that one has not ended, the later task can
\* start and take each of its steps, so the message of the second clip of a
\* participant can be emitted before the message of the first.
C29_NoOrderWithinParticipant ==
    \A i, j \in 1..Len(tasks) :
        (i < j /\ tasks[i].user_id = tasks[j].user_id /\ ~Ended(i))
        => CanStep(j)

\* two clips of participant 1 were handed off one after the other and the
\* message of the second was emitted before the message of the first
C29_Witness ==
    /\ Len(tasks) = 2
    /\ tasks[1].user_id = 1
    /\ tasks[2].user_id = 1
    /\ tasks[1].start_ms < tasks[2].start_ms
    /\ Len(emitted) = 2
    /\ emitted[1].task = 2
    /\ emitted[2].task = 1

\* C30: whenever a task reads a shared context, the context's timestamp is
\* not later than the whole second at which the task's clip was received,
\* so that unixsecs - timestamp does not underflow and the task does not
\* end in the read.
C30_SubtractionNeverUnderflows ==
    [][\A i \in 1..Len(tasks) :
         ( /\ tasks[i].pc = "spawned"
           /\ tasks'[i].pc # "spawned"
           /\ last_transcription # None )
         => /\ last_transcription[1].timestamp <= tasks[i].unixsecs
            /\ tasks'[i].pc = "read"]_vars

C32_NoEmptyHandOff ==
    [][( /\ last_event'.ran
         /\ last_event'.ctx.kind = "VoicePacket"
               => /\ last_event'.ctx.audio # None
                  /\ last_event'.ctx.audio[1].n \in 1..AUDIO_BUFFER_SIZE )
       => \A i \in (Len(tasks) + 1)..Len(tasks') :
              tasks'[i].audio.len > 0]_vars

\* a frame that did not fit flushed the ring, and the stop-talking signal
\* that has just been handled flushed that frame: two clips, neither
\* empty, while no frame was longer than the ring
C32_Witness ==
    /\ last_event.ran
    /\ last_event.ctx.kind = "SpeakingUpdate"
    /\ ~last_event.ctx.flag
    /\ last_event.handed = 1
    /\ Len(tasks) = 2
    /\ Len(history[1].pushed) = 2
    /\ \A i \in 1..2 : history[1].pushed[i].n \in 1..AUDIO_BUFFER_SIZE
    /\ \A i \in 1..2 : tasks[i].audio.runs = << history[1].pushed[i] >>

(***************************************************************************)
(* Attribution of clips and messages, checked under SpecDuo.               *)
(***************************************************************************)
\* C33: every clip handed off is the ring of the session of the event's
\* source stream, carries that session's participant id (the id given at
\* its join, never the buffer's 0) and holds only samples that arrived
\* for that source stream; every message carries the participant id of
\* its clip.
C33_ClipAttributedToItsSession ==
    /\ [](/\ \A s \in Ssrcs :
                Tracked(ssrc_to_user_voice_data, s) =>
                    /\ Session(s).user_id \in Users
                    /\ \A k \in 1..Len(Ring(s).runs) : Ring(s).runs[k].src = s
          /\ \A i \in 1..Len(tasks) :
                /\ tasks[i].user_id \in Users
                /\ \A k \in 1..Len(tasks[i].audio.runs) :
                       tasks[i].audio.runs[k].src = tasks[i].ssrc
          /\ \A k \in 1..Len(emitted) :
                emitted[k].user_id = tasks[emitted[k].task].user_id)
    /\ [][/\ \A s \in Ssrcs :
                JoinOf(last_event', s, last_event'.ctx.user_id[1])
                /\ ~last_event'.panic
                => ssrc_to_user_voice_data'[s][1].user_id
                      = last_event'.ctx.user_id[1]
          /\ \A i \in (Len(tasks) + 1)..Len(tasks') :
                LET s == last_event'.ctx.ssrc
                IN  /\ Tracked(ssrc_to_user_voice_data, s)
                    /\ tasks'[i].ssrc = s
                    /\ tasks'[i].user_id = Session(s).user_id
                    /\ tasks'[i].audio = Ring(s)]_vars

\* both participants have had a clip handed off, each holding a frame of
\* its own source stream, and a message of participant 2 was emitted
C33_Witness ==
    /\ Len(tasks) = 2
    /\ tasks[1].ssrc # tasks[2].ssrc
    /\ \A i \in 1..2 : tasks[i].audio.len = 48000
    /\ \E k \in 1..Len(emitted) :
          /\ emitted[k].user_id = 2
          /\ tasks[emitted[k].task].ssrc = 2

\* the frames, by id, held in a ring or in a clip that was handed off
Held ==
    { id \in 1..nframes :
        \/ \E s \in Ssrcs :
              /\ Tracked(ssrc_to_user_voice_data, s)
              /\ \E k \in 1..Len(Ring(s).runs) : Ring(s).runs[k].id = id
        \/ \E i \in 1..Len(tasks) :
              \E k \in 1..Len(tasks[i].audio.runs) :
                  tasks[i].audio.runs[k].id = id }

\* C34: the step that handles a participant's leave hands off no clip and
\* emits no message, and the frames in the rings of the removed sessions
\* are in no ring and no clip afterwards; a frame that is in no ring and
\* no clip is never in a ring or a clip again; every message is made of a
\* clip that was handed off.
C34_LeaveDropsBufferedAudio ==
    /\ [][\A u \in Users :
            ( /\ RouterStep
              /\ last_event'.ran
              /\ last_event'.ctx.kind = "ClientDisconnect"
              /\ last_event'.ctx.user_id = Some(u) )
            => /\ tasks' = tasks
               /\ emitted' = emitted
               /\ \A s \in Ssrcs :
                     ( Tracked(ssrc_to_user_voice_data, s)
                       /\ Session(s).user_id = u )
                     => \A k \in 1..Len(Ring(s).runs) :
                            Ring(s).runs[k].id \notin Held']_vars
    /\ [][\A id \in 1..nframes : id \notin Held => id \notin Held']_vars
    /\ [](\A k \in 1..Len(emitted) : emitted[k].task \in 1..Len(tasks))

\* participant 1 left while the first frame was in its ring: that frame is
\* in no ring and no clip, and the only message is the one made of the
\* second frame, sent by participant 2
C34_Witness ==
    /\ nframes = 2
    /\ history[1].left
    /\ ~Tracked(ssrc_to_user_voice_data, 1)
    /\ Held = {2}
    /\ Len(emitted) = 1
    /\ emitted[1].user_id = 2

(***************************************************************************)
(* Locking, checked under SpecLocks.                                       *)
(***************************************************************************)
\* the locks p holds
Holds(p) == { l \in Locks : holder[l] = Some(p) }

\* the lock p is waiting for, if any
Awaits(p) ==
    CASE pc[p].at = "log_wait" -> Some(<<"maybe_log_file_mutex", 0>>)
      [] pc[p].at = "map_wait" -> Some(<<"ssrc_to_user_voice_data", 0>>)
      [] pc[p].at = "ring_wait" -> Some(<<"buffer_mutex", pc[p].ssrc>>)
      [] pc[p].at \in {"spawned", "write_wait"} -> Some(<<"last_transcription", 0>>)
      [] OTHER -> None

\* p waits for a lock that another handler or task holds
Blocked(p) == Awaits(p) # None /\ holder[Awaits(p)[1]] \notin {None, Some(p)}

\* C35: a handler takes the map lock holding no lock and a ring lock
\* holding only the map lock, holds no lock when it returns, and never
\* holds the context lock; a task holds no lock but the context lock and
\* holds none during the engine call; whoever holds the lock that a
\* handler or task waits for is not waiting for a lock and can take its
\* next step, so in no state are all of them waiting for a lock.
C35_DeadlockFree ==
    /\ \A h \in Handlers :
          /\ Holds(h) \subseteq
                CASE pc[h].at \in {"idle", "log_wait", "map_wait"} -> {}
                  [] pc[h].at = "log_held" -> { <<"maybe_log_file_mutex", 0>> }
                  [] pc[h].at \in {"map_held", "ring_wait", "ring_done"} ->
                        { <<"ssrc_to_user_voice_data", 0>> }
                  [] OTHER -> { <<"ssrc_to_user_voice_data", 0>>,
                                <<"buffer_mutex", pc[h].ssrc>> }
          /\ (\E s \in Ssrcs : <<"buffer_mutex", s>> \in Holds(h))
                => <<"ssrc_to_user_voice_data", 0>> \in Holds(h)
    /\ \A t \in LockTasks :
          Holds(t) \subseteq
              IF pc[t].at \in {"read_held", "write_held"}
              THEN { <<"last_transcription", 0>> } ELSE {}
    /\ \A p \in Handlers \cup LockTasks :
          Blocked(p) =>
              \E q \in Handlers \cup LockTasks :
                  /\ holder[Awaits(p)[1]] = Some(q)
                  /\ ~Blocked(q)
                  /\ q \in OnWorker
                  /\ ENABLED Step(q)
    /\ \E p \in Handlers \cup LockTasks : ~Blocked(p) /\ ENABLED Step(p)

\* one handler is inside push or flush_buffer holding the map lock and a
\* ring lock while the other waits for the map lock, one task holds the
\* context lock and the other is inside the engine call
C35_Witness ==
    /\ \E h \in Handlers :
          /\ Holds(h) = { <<"ssrc_to_user_voice_data", 0>>, <<"buffer_mutex", 1>> }
          /\ \E g \in Handlers : Blocked(g) /\ pc[g].at = "map_wait"
    /\ \E t \in LockTasks :
          /\ Holds(t) = { <<"last_transcription", 0>> }
          /\ \E u \in LockTasks : pc[u].at = "engine"

(***************************************************************************)
(* The range of a message's duration, checked under SpecE2E.               *)
(***************************************************************************)
\* C36: every message carries the duration of its clip, which is at least
\* MIN_AUDIO_THRESHOLD_MS and at most 30 000 ms: no clip handed off is
\* longer than the ring, whose AUDIO_BUFFER_SIZE = 2 880 000 samples are
\* 30 s of audio and a whole number of frames of 1920 samples, and a clip
\* of less than 500 ms is given to no task.
C36_DurationInRange ==
    /\ AUDIO_BUFFER_SIZE = 2880000
    /\ AUDIO_BUFFER_SIZE % 1920 = 0
    /\ (AUDIO_BUFFER_SIZE \div AUDIO_CHANNELS) \div DISCORD_SAMPLES_PER_MILLISECOND
          = 30000
    /\ \A i \in 1..Len(tasks) :
          /\ tasks[i].audio.len <= AUDIO_BUFFER_SIZE
          /\ tasks[i].audio_duration_ms <= 30000
          /\ tasks[i].pc # "dropped" => tasks[i].audio_duration_ms >= 500
    /\ \A k \in 1..Len(emitted) :
          /\ emitted[k].audio_duration_ms
                = audio_duration_ms(tasks[emitted[k].task].audio)
          /\ emitted[k].audio_duration_ms >= 500
          /\ emitted[k].audio_duration_ms <= 30000

\* the message of a clip that filled the ring was emitted: 30 000 ms, and
\* the 40 ms that followed it were handed off and dropped
C36_Witness ==
    /\ \E k \in 1..Len(emitted) :
          /\ emitted[k].audio_duration_ms = 30000
          /\ tasks[emitted[k].task].audio.len = AUDIO_BUFFER_SIZE
    /\ \E i \in 1..Len(tasks) :
          tasks[i].audio_duration_ms = 40 /\ tasks[i].pc = "dropped"

(***************************************************************************)
(* The conversion of transport events, checked under SpecLocks: event is   *)
(* the kind of the transport event an invocation of act was called for,    *)
(* kind the variant MyEventContext::from made of it.                       *)
(***************************************************************************)
\* C37: the variant made of a transport event has the name of the event's
\* kind: DriverReconnect for a driver reconnect, DriverConnect for a driver
\* connect, DriverDisconnect for a driver disconnect.
C37_SameNamedVariant ==
    \A h \in Handlers : pc[h].event # "none" => pc[h].kind = pc[h].event

\* every kind of event but the driver reconnect is given the variant of its
\* name, and the driver reconnect the variant DriverConnect
C37_AllButReconnect ==
    \A h \in Handlers :
        pc[h].event # "none" =>
            pc[h].kind = IF pc[h].event = "DriverReconnect"
                         THEN "DriverConnect" ELSE pc[h].event

=============================================================================
